---- MODULE Spec2Model ----
(***************************************************************************)
(* ClawStake: escrow and settlement ledger for binary prediction markets.  *)
(* Model of src/contracts/ClawStake.sol.  One action per external function *)
(* of the contract.  Each handler is an operator from the storage, the     *)
(* token ledger and the call's arguments to its result: .err is "ok" or    *)
(* the error the call reverts with.  A reverted call leaves the chain      *)
(* state untouched (EVM transaction atomicity), which is a stuttering      *)
(* step, so an action is enabled by its handler returning "ok".            *)
(***************************************************************************)
EXTENDS Integers, Sequences, FiniteSets, TLC

\* ------------------------------------------------------------ constants

\* uint256 public constant MIN_STAKE = 1e6
MIN_STAKE == 1000000

\* uint256 public constant REFUND_GRACE_PERIOD = 30 days
REFUND_GRACE_PERIOD == 2592000

\* Largest value of the unsigned word the model computes with.  The contract
\* uses uint256; TLC's integers are 32-bit, so the word is narrowed and
\* checked arithmetic panics above this value exactly as Solidity 0.8 does
\* above 2^256 - 1.
MAX_UINT == 2147483647

\* ------------------------------------------------------------ bounds

\* Longest array passed to batchStake.
MaxBatch == 2

\* Tokens minted to alice and to bob before the first call.
AliceFunds == 2000000

BobFunds == 1000001

\* Tokens sent to the contract's address by mistake before the first call
\* (the "stuck tokens" emergencyWithdraw exists for): custody holds more
\* than the pools, so the token ledger alone never stops an overpayment.
StrayFunds == 1000000

\* The cap on the recorded pools plus the owner's holdings past which the
\* runs sweep no more.
MaxStaked == 3000000

\* ------------------------------------------------------------ inputs

Owner == "owner"
Users == {"owner", "alice", "bob"}
Contract == "contract"

\* Slugs callers pass; "" is the empty string.
Slugs == {"", "a", "b"}

\* The slugs of the one-market and of the two-market specification.
OneMarket == {"", "a"}

TwoMarkets == Slugs

\* Amounts callers pass: below the floor, the floor, just above it.
Amounts == {MIN_STAKE - 1, MIN_STAKE, MIN_STAKE + 1}

\* A deadline some time in the future of the first block.
Deadline1 == 1800000000

\* Deadlines the owner passes to setDeadline.
Deadlines == {0, Deadline1, MAX_UINT}

\* Block timestamps at which calls are made.
\* The tokens emergencyWithdraw can be pointed at: the staking token and
\* any other.
Tokens == {"usdc", "other"}

\* The amounts the owner sweeps.
SweepAmounts == {StrayFunds, 2 * MIN_STAKE}

Instants == {Deadline1, Deadline1 + 1, Deadline1 + REFUND_GRACE_PERIOD,
             Deadline1 + REFUND_GRACE_PERIOD + 1}

\* Token balances after the mints that precede the first call: the deployer
\* holds nothing, as in the test fixture.
InitBalance ==
  [a \in Users \cup {Contract} |->
     CASE a = "alice"  -> AliceFunds
       [] a = "bob"    -> BobFunds
       [] a = Contract -> StrayFunds
       [] OTHER        -> 0]

\* ------------------------------------------------------------ state

VARIABLES
  markets,     \* mapping(bytes32 => Market)
  stakes,      \* mapping(bytes32 => mapping(address => Stake))
  marketKeys,  \* bytes32[]
  slugOf,      \* mapping(bytes32 => string)
  events,      \* per key, how often MarketCreated / MarketCancelled was emitted
  balance,     \* the token's ledger: holder -> amount
  now,         \* block.timestamp
  paid,        \* history: per key and account, the successful claims and
               \* refunds (how many, and the amount transferred out)
  voidedBy,    \* history: per key, the function that set cancelled
  last,        \* history: the last call that did not revert
  status,      \* ReentrancyGuard._status
  pending      \* the call that is inside its external token transfer

vars == <<markets, stakes, marketKeys, slugOf, events, balance, now, paid,
          voidedBy, last, status, pending>>

\* keccak256(abi.encodePacked(slug)): an injective digest of the slug.
Key(slug) == <<"keccak256", slug>>

Keys == {Key(s) : s \in Slugs}

\* The slug a key was computed from (Key is injective).
SlugOfKey(k) == CHOOSE s \in Slugs : Key(s) = k

ZeroMarket ==
  [totalYes |-> 0, totalNo |-> 0, deadline |-> 0, resolved |-> FALSE,
   outcomeYes |-> FALSE, cancelled |-> FALSE, exists |-> FALSE]

ZeroStake == [amountYes |-> 0, amountNo |-> 0, claimed |-> FALSE]

NoCall ==
  [op |-> "none", caller |-> "", slug |-> "", flag |-> FALSE, amount |-> 0]

Call(op, caller, slug, flag, amount) ==
  [op |-> op, caller |-> caller, slug |-> slug, flag |-> flag,
   amount |-> amount]

\* The contract's storage as one value, for the handlers that thread it
\* through several steps.
Storage ==
  [markets |-> markets, stakes |-> stakes, marketKeys |-> marketKeys,
   slugOf |-> slugOf, events |-> events]

Revert(e) == [err |-> e]

\* bounced: the function of the account's call on the market that a failing
\* token transfer reverted, "none" if there was none.
NeverPaid == [claims |-> 0, refunds |-> 0, amount |-> 0, bounced |-> "none"]

\* No call is inside a token transfer.  Otherwise pending holds the call,
\* the arrays of a batchStake, and the state the transaction started from,
\* which a revert of the outer call restores.
NoPending ==
  [op |-> "none", caller |-> "", slug |-> "", flag |-> FALSE, amount |-> 0,
   args |-> <<>>, saved |-> <<>>]

\* ReentrancyGuard: the body of a nonReentrant function runs only when
\* _status is not ENTERED.
NonReentrant(guard, result) ==
  IF guard = "ENTERED" THEN Revert("ReentrancyGuardReentrantCall")
  ELSE result

Init ==
  /\ markets = [k \in Keys |-> ZeroMarket]
  /\ stakes = [k \in Keys |-> [u \in Users |-> ZeroStake]]
  /\ marketKeys = <<>>
  /\ slugOf = [k \in Keys |-> ""]
  /\ events = [k \in Keys |-> [MarketCreated |-> 0, MarketCancelled |-> 0]]
  /\ balance = InitBalance
  /\ now = Deadline1
  /\ paid = [k \in Keys |-> [u \in Users |-> NeverPaid]]
  /\ voidedBy = [k \in Keys |-> "none"]
  /\ last = NoCall
  /\ status = "NOT_ENTERED"
  /\ pending = NoPending

\* ------------------------------------------------------------ token

\* IERC20.transferFrom / transfer as the contract sees them through
\* SafeERC20: the call reverts when the payer's balance is short.
TokenCanMove(bal, from, amount) == bal[from] >= amount

TokenMove(bal, from, to, amount) ==
  [bal EXCEPT ![from] = @ - amount, ![to] = @ + amount]

\* ------------------------------------------------------------ stake

\* CreateIfNew without the exists test.
CreateAlways(st, slug) ==
  LET key == Key(slug) IN
  [st EXCEPT !.markets[key].exists = TRUE,
             !.marketKeys = Append(@, key),
             !.slugOf[key] = slug,
             !.events[key].MarketCreated = @ + 1]

\* CreateIfNew that puts the new key in front of the enumeration.
CreateInFront(st, slug) ==
  LET key == Key(slug) IN
  IF ~st.markets[key].exists
    THEN [st EXCEPT !.markets[key].exists = TRUE,
                    !.marketKeys = <<key>> \o @,
                    !.slugOf[key] = slug,
                    !.events[key].MarketCreated = @ + 1]
    ELSE st

\* The lazy creation at the head of stake and _recordStake.
CreateIfNew(st, slug) ==
  LET key == Key(slug) IN
  IF ~st.markets[key].exists
    THEN [st EXCEPT !.markets[key].exists = TRUE,
                    !.marketKeys = Append(@, key),
                    !.slugOf[key] = slug,
                    !.events[key].MarketCreated = @ + 1]
    ELSE st

\* AddStake with the participant's own record forgotten.
AddStakeMarketOnly(st, caller, key, isYes, amount) ==
  IF isYes
    THEN [st EXCEPT !.markets[key].totalYes = @ + amount]
    ELSE [st EXCEPT !.markets[key].totalNo = @ + amount]

\* AddStake crediting the market's YES total whatever the side.
AddStakeYesTotal(st, caller, key, isYes, amount) ==
  IF isYes
    THEN [st EXCEPT !.markets[key].totalYes = @ + amount,
                    !.stakes[key][caller].amountYes = @ + amount]
    ELSE [st EXCEPT !.markets[key].totalYes = @ + amount,
                    !.stakes[key][caller].amountNo = @ + amount]

\* "Record stake": the side total of the market and of the caller grow by
\* amount.
AddStake(st, caller, key, isYes, amount) ==
  IF isYes
    THEN [st EXCEPT !.markets[key].totalYes = @ + amount,
                    !.stakes[key][caller].amountYes = @ + amount]
    ELSE [st EXCEPT !.markets[key].totalNo = @ + amount,
                    !.stakes[key][caller].amountNo = @ + amount]

\* StakeGate closing the market at the deadline instant itself.
StakeGateAtDeadline(market, t) ==
  IF market.resolved THEN "MarketAlreadyResolved"
  ELSE IF market.cancelled THEN "MarketIsCancelled"
  ELSE IF market.deadline > 0 /\ t >= market.deadline THEN "MarketExpired"
  ELSE "ok"

\* The lifecycle checks stake and _recordStake make on the market once it
\* is materialised; "ok" when the market accepts stakes at time t.
StakeGate(market, t) ==
  IF market.resolved THEN "MarketAlreadyResolved"
  ELSE IF market.cancelled THEN "MarketIsCancelled"
  ELSE IF market.deadline > 0 /\ t > market.deadline THEN "MarketExpired"
  ELSE "ok"

\* stake(marketSlug, isYes, amount) called by caller on storage st and token
\* ledger bal at time t.
stake(st, bal, t, caller, slug, isYes, amount) ==
  IF slug = "" THEN Revert("EmptySlug")
  ELSE IF amount < MIN_STAKE THEN Revert("StakeTooSmall")
  ELSE
    LET key == Key(slug)
        st1 == CreateIfNew(st, slug)
        gate == StakeGate(st1.markets[key], t)
    IN IF gate # "ok" THEN Revert(gate)
       ELSE IF ~TokenCanMove(bal, caller, amount) THEN Revert("TransferFailed")
       ELSE [err |-> "ok",
             st |-> AddStake(st1, caller, key, isYes, amount),
             bal |-> TokenMove(bal, caller, Contract, amount)]

\* _recordStake crediting the side the caller did not choose.
recordStakeOtherSide(st, t, caller, slug, isYes, amount) ==
  IF slug = "" THEN Revert("EmptySlug")
  ELSE
    LET key == Key(slug)
        st1 == CreateIfNew(st, slug)
        gate == StakeGate(st1.markets[key], t)
    IN IF gate # "ok" THEN Revert(gate)
       ELSE [err |-> "ok", st |-> AddStake(st1, caller, key, ~isYes, amount)]

\* _recordStake(marketSlug, isYes, amount): stake without the transfer.
\* Returns the storage, or a revert.
recordStake(st, t, caller, slug, isYes, amount) ==
  IF slug = "" THEN Revert("EmptySlug")
  ELSE
    LET key == Key(slug)
        st1 == CreateIfNew(st, slug)
        gate == StakeGate(st1.markets[key], t)
    IN IF gate # "ok" THEN Revert(gate)
       ELSE [err |-> "ok", st |-> AddStake(st1, caller, key, isYes, amount)]

\* The first loop of batchStake: revert on an amount below the floor, else
\* the sum of the amounts from index i on.
RECURSIVE SumFrom(_, _)
SumFrom(amounts, i) ==
  IF i > Len(amounts) THEN [err |-> "ok", total |-> 0]
  ELSE IF amounts[i] < MIN_STAKE THEN Revert("StakeTooSmall")
  ELSE LET rest == SumFrom(amounts, i + 1)
       IN IF rest.err # "ok" THEN rest
          ELSE [err |-> "ok", total |-> amounts[i] + rest.total]

\* The sum of the amounts from index i on, with no floor check.
RECURSIVE PlainSumFrom(_, _)
PlainSumFrom(amounts, i) ==
  IF i > Len(amounts) THEN 0 ELSE amounts[i] + PlainSumFrom(amounts, i + 1)

\* SumAmounts with the MIN_STAKE test left out of the loop.
SumAmountsNoFloor(amounts) ==
  [err |-> "ok", total |-> PlainSumFrom(amounts, 1)]

\* SumAmounts with the loop started one element late.
SumAmountsOffByOne(amounts) == SumFrom(amounts, 2)

\* uint256 totalAmount = 0; for (i = 0; i < amounts.length; i++) ...
SumAmounts(amounts) == SumFrom(amounts, 1)

\* The second loop stopping after its first entry.
RecordFirstOnly(st, t, caller, slugs, sides, amounts, i) ==
  IF i > Len(slugs) THEN [err |-> "ok", st |-> st]
  ELSE recordStake(st, t, caller, slugs[i], sides[i], amounts[i])

\* The second loop of batchStake: _recordStake entry i, i+1, ... in order.
RECURSIVE RecordAll(_, _, _, _, _, _, _)
RecordAll(st, t, caller, slugs, sides, amounts, i) ==
  IF i > Len(slugs) THEN [err |-> "ok", st |-> st]
  ELSE LET r == recordStake(st, t, caller, slugs[i], sides[i], amounts[i])
       IN IF r.err # "ok" THEN r
          ELSE RecordAll(r.st, t, caller, slugs, sides, amounts, i + 1)

\* batchStake(slugs, sides, amounts) called by caller.  transferCalls is
\* the number of usdc.safeTransferFrom calls the execution made before it
\* returned or reverted: the call at line 155 sits between the two loops.
batchStake(st, bal, t, caller, slugs, sides, amounts) ==
  IF Len(slugs) # Len(sides) \/ Len(sides) # Len(amounts)
    THEN [err |-> "ArrayLengthMismatch", transferCalls |-> 0]
  ELSE
    LET sum == SumAmounts(amounts) IN
    IF sum.err # "ok" THEN [err |-> sum.err, transferCalls |-> 0]
    ELSE IF ~TokenCanMove(bal, caller, sum.total)
      THEN [err |-> "TransferFailed", transferCalls |-> 1]
    ELSE
      LET r == RecordAll(st, t, caller, slugs, sides, amounts, 1) IN
      IF r.err # "ok" THEN [err |-> r.err, transferCalls |-> 1]
      ELSE [err |-> "ok", st |-> r.st, total |-> sum.total,
            transferCalls |-> 1,
            bal |-> TokenMove(bal, caller, Contract, sum.total)]

\* Commit a storage value.
Commit(st) ==
  /\ markets' = st.markets
  /\ stakes' = st.stakes
  /\ marketKeys' = st.marketKeys
  /\ slugOf' = st.slugOf
  /\ events' = st.events

Stake(S) ==
  \E caller \in Users, slug \in S, isYes \in BOOLEAN, amount \in Amounts :
    LET r == NonReentrant(status,
               stake(Storage, balance, now, caller, slug, isYes, amount)) IN
    /\ r.err = "ok"
    /\ Commit(r.st)
    /\ balance' = r.bal
    /\ last' = Call("stake", caller, slug, isYes, amount)
    /\ UNCHANGED <<now, paid, voidedBy, status, pending>>

\* The array triples <<slugs, sides, amounts>> a caller can pass to
\* batchStake, of length at most MaxBatch: equal lengths with every content
\* over the slugs S, and unequal lengths (whose contents are never read).
BatchArgs(S) ==
  UNION {[1..n -> S] \X [1..n -> BOOLEAN] \X [1..n -> Amounts] :
           n \in 0..MaxBatch}
  \cup {<<[i \in 1..a |-> "a"], [i \in 1..b |-> TRUE],
          [i \in 1..c |-> MIN_STAKE]>> :
           a \in 0..MaxBatch, b \in 0..MaxBatch, c \in 0..MaxBatch}

\* The triples of BatchArgs(S) that pass batchStake's argument checks:
\* equal lengths, no amount below MIN_STAKE, no empty slug.  Every other
\* triple reverts in every state and so is never a step.
WellFormedBatchArgs(S) ==
  UNION {[1..n -> S \ {""}] \X [1..n -> BOOLEAN]
           \X [1..n -> {a \in Amounts : a >= MIN_STAKE}] :
           n \in 0..MaxBatch}

BatchStake(S) ==
  \E caller \in Users, args \in WellFormedBatchArgs(S) :
    LET r == NonReentrant(status,
               batchStake(Storage, balance, now, caller,
                          args[1], args[2], args[3])) IN
    /\ r.err = "ok"
    /\ Commit(r.st)
    /\ balance' = r.bal
    /\ last' = Call("batchStake", caller, "", FALSE, r.total)
    /\ UNCHANGED <<now, paid, voidedBy, status, pending>>

\* ------------------------------------------------------------ resolve

\* onlyOwner letting every caller through.
IsAnyone(caller) == TRUE

\* onlyOwner: Ownable._checkOwner.
IsOwner(caller) == caller = Owner

\* WinningPool reading the other side.
WinningPoolSwapped(m, outcomeYes) ==
  IF outcomeYes THEN m.totalNo ELSE m.totalYes

\* outcomeYes ? totalYes : totalNo, in resolve and in claim.
WinningPool(m, outcomeYes) ==
  IF outcomeYes THEN m.totalYes ELSE m.totalNo

\* resolve without the already-resolved test.
resolveAgain(st, caller, slug, outcomeYes) ==
  LET key == Key(slug)
      m == st.markets[key]
  IN IF ~IsOwner(caller) THEN Revert("OwnableUnauthorizedAccount")
     ELSE IF ~m.exists THEN Revert("MarketDoesNotExist")
     ELSE IF m.cancelled THEN Revert("MarketIsCancelled")
     ELSE
       LET winningPool == WinningPool(m, outcomeYes)
           st1 == [st EXCEPT !.markets[key].resolved = TRUE,
                             !.markets[key].outcomeYes = outcomeYes]
       IN IF winningPool = 0
            THEN [err |-> "ok", voided |-> TRUE,
                  st |-> [st1 EXCEPT !.markets[key].cancelled = TRUE,
                                     !.events[key].MarketCancelled = @ + 1]]
            ELSE [err |-> "ok", voided |-> FALSE, st |-> st1]

\* resolve that reads the clock: a market past deadline +
\* REFUND_GRACE_PERIOD is refused.
resolveUntilExpiry(st, caller, slug, outcomeYes) ==
  LET key == Key(slug)
      m == st.markets[key]
  IN IF ~IsOwner(caller) THEN Revert("OwnableUnauthorizedAccount")
     ELSE IF ~m.exists THEN Revert("MarketDoesNotExist")
     ELSE IF m.resolved THEN Revert("MarketAlreadyResolved")
     ELSE IF m.cancelled THEN Revert("MarketIsCancelled")
     ELSE IF m.deadline > 0 /\ now - REFUND_GRACE_PERIOD > m.deadline
       THEN Revert("MarketExpired")
     ELSE
       LET winningPool == WinningPool(m, outcomeYes)
           st1 == [st EXCEPT !.markets[key].resolved = TRUE,
                             !.markets[key].outcomeYes = outcomeYes]
       IN IF winningPool = 0
            THEN [err |-> "ok", voided |-> TRUE,
                  st |-> [st1 EXCEPT !.markets[key].cancelled = TRUE,
                                     !.events[key].MarketCancelled = @ + 1]]
            ELSE [err |-> "ok", voided |-> FALSE, st |-> st1]

\* resolve without the auto-cancel of a market with no winners.
resolveNeverVoids(st, caller, slug, outcomeYes) ==
  LET key == Key(slug)
      m == st.markets[key]
  IN IF ~IsOwner(caller) THEN Revert("OwnableUnauthorizedAccount")
     ELSE IF ~m.exists THEN Revert("MarketDoesNotExist")
     ELSE IF m.resolved THEN Revert("MarketAlreadyResolved")
     ELSE IF m.cancelled THEN Revert("MarketIsCancelled")
     ELSE [err |-> "ok", voided |-> FALSE,
           st |-> [st EXCEPT !.markets[key].resolved = TRUE,
                             !.markets[key].outcomeYes = outcomeYes]]

\* resolve(marketSlug, outcomeYes) called by caller.
resolve(st, caller, slug, outcomeYes) ==
  LET key == Key(slug)
      m == st.markets[key]
  IN IF ~IsOwner(caller) THEN Revert("OwnableUnauthorizedAccount")
     ELSE IF ~m.exists THEN Revert("MarketDoesNotExist")
     ELSE IF m.resolved THEN Revert("MarketAlreadyResolved")
     ELSE IF m.cancelled THEN Revert("MarketIsCancelled")
     ELSE
       LET winningPool == WinningPool(m, outcomeYes)
           st1 == [st EXCEPT !.markets[key].resolved = TRUE,
                             !.markets[key].outcomeYes = outcomeYes]
       IN IF winningPool = 0
            THEN [err |-> "ok", voided |-> TRUE,
                  st |-> [st1 EXCEPT !.markets[key].cancelled = TRUE,
                                     !.events[key].MarketCancelled = @ + 1]]
            ELSE [err |-> "ok", voided |-> FALSE, st |-> st1]

Resolve(S) ==
  \E caller \in Users, slug \in S, outcomeYes \in BOOLEAN :
    LET r == resolve(Storage, caller, slug, outcomeYes) IN
    /\ r.err = "ok"
    /\ Commit(r.st)
    /\ voidedBy' = IF r.voided
                     THEN [voidedBy EXCEPT ![Key(slug)] = "resolve"]
                     ELSE voidedBy
    /\ last' = Call("resolve", caller, slug, outcomeYes, 0)
    /\ UNCHANGED <<balance, now, paid, status, pending>>

\* ------------------------------------------------------------ claim

\* <<q, r>> with a * b = q * c + r and 0 <= r < c, by doubling, so that no
\* intermediate value leaves TLC's integers (a * b itself would).
RECURSIVE MulDivMod(_, _, _)
MulDivMod(a, b, c) ==
  IF b = 0 THEN <<0, 0>>
  ELSE LET h == MulDivMod(a, b \div 2, c)
           add == IF b % 2 = 1 THEN a ELSE 0
           r == 2 * h[2] + (add % c)
       IN <<2 * h[1] + (add \div c) + (r \div c), r % c>>

\* Payout rounded up instead of down.
PayoutRoundUp(userStake, totalPool, winningPool) ==
  LET qr == MulDivMod(userStake, totalPool, winningPool)
  IN IF qr[2] = 0 THEN qr[1] ELSE qr[1] + 1

\* Payout with the two pools exchanged.
PayoutPoolsExchanged(userStake, totalPool, winningPool) ==
  MulDivMod(userStake, winningPool, totalPool)[1]

\* (userStake * totalPool) / winningPool in unsigned integer arithmetic.
Payout(userStake, totalPool, winningPool) ==
  MulDivMod(userStake, totalPool, winningPool)[1]

\* MarkClaimed with the assignment lost.
MarkClaimedLost(st, key, caller) == st

\* MarkClaimed that also clears the recorded amounts.
MarkClaimedAndZeroed(st, key, caller) ==
  [st EXCEPT !.stakes[key][caller] =
               [amountYes |-> 0, amountNo |-> 0, claimed |-> TRUE]]

\* MarkClaimed keyed by the caller alone: the caller's record is marked
\* in every market.
MarkClaimedEverywhere(st, key, caller) ==
  [st EXCEPT !.stakes =
     [k \in DOMAIN st.stakes |-> [st.stakes[k] EXCEPT ![caller].claimed = TRUE]]]

\* s.claimed = true, in claim and in refund.
MarkClaimed(st, key, caller) ==
  [st EXCEPT !.stakes[key][caller].claimed = TRUE]

\* WinningStake counting the caller's stake on either side.
WinningStakeEitherSide(m, s) == s.amountYes + s.amountNo

\* market.outcomeYes ? s.amountYes : s.amountNo.
WinningStake(m, s) == IF m.outcomeYes THEN s.amountYes ELSE s.amountNo

\* claim(marketSlug) called by caller.
claim(st, bal, caller, slug) ==
  LET key == Key(slug)
      m == st.markets[key]
      s == st.stakes[key][caller]
  IN IF ~m.exists THEN Revert("MarketDoesNotExist")
     ELSE IF ~m.resolved THEN Revert("MarketNotResolved")
     ELSE IF m.cancelled THEN Revert("MarketIsCancelled")
     ELSE IF s.claimed THEN Revert("AlreadyClaimed")
     ELSE
       LET userStake == WinningStake(m, s)
           winningPool == WinningPool(m, m.outcomeYes)
           totalPool == m.totalYes + m.totalNo
       IN IF userStake = 0 THEN Revert("NothingToClaim")
          ELSE IF winningPool = 0 THEN Revert("Panic")
          ELSE
            LET payout == Payout(userStake, totalPool, winningPool) IN
            IF ~TokenCanMove(bal, Contract, payout)
              THEN Revert("TransferFailed")
              ELSE [err |-> "ok", payout |-> payout,
                    st |-> MarkClaimed(st, key, caller),
                    bal |-> TokenMove(bal, Contract, caller, payout)]

Claim(S) ==
  \E caller \in Users, slug \in S :
    LET r == NonReentrant(status, claim(Storage, balance, caller, slug)) IN
    /\ r.err = "ok"
    /\ Commit(r.st)
    /\ balance' = r.bal
    /\ paid' = [paid EXCEPT ![Key(slug)][caller].claims = @ + 1,
                             ![Key(slug)][caller].amount = @ + r.payout]
    /\ last' = Call("claim", caller, slug, FALSE, r.payout)
    /\ UNCHANGED <<now, voidedBy, status, pending>>

\* ------------------------------------------------------------ refund

\* market.deadline + REFUND_GRACE_PERIOD overflows the checked addition.
GraceOverflows(deadline) == deadline > MAX_UINT - REFUND_GRACE_PERIOD

\* MarkCancelled that leaves the market as it was.
MarkCancelledSkipped(st, key) == st

\* market.cancelled = true; emit MarketCancelled(marketSlug, key), on the
\* first refund of an expired market.
MarkCancelled(st, key) ==
  [st EXCEPT !.markets[key].cancelled = TRUE,
             !.events[key].MarketCancelled = @ + 1]

\* refund that is open on cancelled markets only: the expiry of the
\* deadline and the grace period opens nothing.
refundCancelledOnly(st, bal, t, caller, slug) ==
  LET key == Key(slug)
      m == st.markets[key]
  IN IF ~m.exists THEN Revert("MarketDoesNotExist")
     ELSE IF m.deadline > 0 /\ GraceOverflows(m.deadline) THEN Revert("Panic")
     ELSE IF ~m.cancelled THEN Revert("RefundNotAvailable")
     ELSE
       LET s == st.stakes[key][caller]
           total == s.amountYes + s.amountNo
       IN IF total = 0 \/ s.claimed THEN Revert("NothingToRefund")
          ELSE IF ~TokenCanMove(bal, Contract, total)
            THEN Revert("TransferFailed")
          ELSE [err |-> "ok", total |-> total, voided |-> FALSE,
                st |-> MarkClaimed(st, key, caller),
                bal |-> TokenMove(bal, Contract, caller, total)]

\* refund whose expiry branch does not test !market.cancelled: every
\* refund of an expired market cancels it and emits the event again.
refundCancelsAgain(st, bal, t, caller, slug) ==
  LET key == Key(slug)
      m == st.markets[key]
  IN IF ~m.exists THEN Revert("MarketDoesNotExist")
     ELSE IF m.deadline > 0 /\ GraceOverflows(m.deadline) THEN Revert("Panic")
     ELSE
       LET isCancelled == m.cancelled
           isExpiredUnresolved ==
             /\ m.deadline > 0
             /\ t > m.deadline + REFUND_GRACE_PERIOD
             /\ ~m.resolved
       IN IF ~isCancelled /\ ~isExpiredUnresolved
            THEN Revert("RefundNotAvailable")
          ELSE
            LET st1 == IF isExpiredUnresolved THEN MarkCancelled(st, key)
                                              ELSE st
                s == st1.stakes[key][caller]
                total == s.amountYes + s.amountNo
            IN IF total = 0 \/ s.claimed THEN Revert("NothingToRefund")
               ELSE IF ~TokenCanMove(bal, Contract, total)
                 THEN Revert("TransferFailed")
               ELSE [err |-> "ok", total |-> total,
                     voided |-> isExpiredUnresolved /\ ~m.cancelled,
                     st |-> MarkClaimed(st1, key, caller),
                     bal |-> TokenMove(bal, Contract, caller, total)]

\* refund whose expiry test lacks market.deadline > 0: a market with no
\* deadline counts as expired once the time is past the grace period.
refundNoDeadlineExpires(st, bal, t, caller, slug) ==
  LET key == Key(slug)
      m == st.markets[key]
  IN IF ~m.exists THEN Revert("MarketDoesNotExist")
     ELSE IF GraceOverflows(m.deadline) THEN Revert("Panic")
     ELSE
       LET isCancelled == m.cancelled
           isExpiredUnresolved ==
             /\ t > m.deadline + REFUND_GRACE_PERIOD
             /\ ~m.resolved
       IN IF ~isCancelled /\ ~isExpiredUnresolved
            THEN Revert("RefundNotAvailable")
          ELSE
            LET autoCancel == isExpiredUnresolved /\ ~m.cancelled
                st1 == IF autoCancel THEN MarkCancelled(st, key) ELSE st
                s == st1.stakes[key][caller]
                total == s.amountYes + s.amountNo
            IN IF total = 0 \/ s.claimed THEN Revert("NothingToRefund")
               ELSE IF ~TokenCanMove(bal, Contract, total)
                 THEN Revert("TransferFailed")
               ELSE [err |-> "ok", total |-> total, voided |-> autoCancel,
                     st |-> MarkClaimed(st1, key, caller),
                     bal |-> TokenMove(bal, Contract, caller, total)]

\* refund whose expiry test lacks !market.resolved: an expired market is
\* open to refunds although it was resolved.
refundResolvedToo(st, bal, t, caller, slug) ==
  LET key == Key(slug)
      m == st.markets[key]
  IN IF ~m.exists THEN Revert("MarketDoesNotExist")
     ELSE IF m.deadline > 0 /\ GraceOverflows(m.deadline) THEN Revert("Panic")
     ELSE
       LET isCancelled == m.cancelled
           isExpired ==
             /\ m.deadline > 0
             /\ t > m.deadline + REFUND_GRACE_PERIOD
       IN IF ~isCancelled /\ ~isExpired
            THEN Revert("RefundNotAvailable")
          ELSE
            LET autoCancel == isExpired /\ ~m.cancelled
                st1 == IF autoCancel THEN MarkCancelled(st, key) ELSE st
                s == st1.stakes[key][caller]
                total == s.amountYes + s.amountNo
            IN IF total = 0 \/ s.claimed THEN Revert("NothingToRefund")
               ELSE IF ~TokenCanMove(bal, Contract, total)
                 THEN Revert("TransferFailed")
               ELSE [err |-> "ok", total |-> total, voided |-> autoCancel,
                     st |-> MarkClaimed(st1, key, caller),
                     bal |-> TokenMove(bal, Contract, caller, total)]

\* refund(marketSlug) called by caller at time t.  The eligibility
\* expression is evaluated left to right with short-circuit &&, before
\* isCancelled is looked at.
refund(st, bal, t, caller, slug) ==
  LET key == Key(slug)
      m == st.markets[key]
  IN IF ~m.exists THEN Revert("MarketDoesNotExist")
     ELSE IF m.deadline > 0 /\ GraceOverflows(m.deadline) THEN Revert("Panic")
     ELSE
       LET isCancelled == m.cancelled
           isExpiredUnresolved ==
             /\ m.deadline > 0
             /\ t > m.deadline + REFUND_GRACE_PERIOD
             /\ ~m.resolved
       IN IF ~isCancelled /\ ~isExpiredUnresolved
            THEN Revert("RefundNotAvailable")
          ELSE
            LET autoCancel == isExpiredUnresolved /\ ~m.cancelled
                st1 == IF autoCancel THEN MarkCancelled(st, key) ELSE st
                s == st1.stakes[key][caller]
                total == s.amountYes + s.amountNo
            IN IF total = 0 \/ s.claimed THEN Revert("NothingToRefund")
               ELSE IF ~TokenCanMove(bal, Contract, total)
                 THEN Revert("TransferFailed")
               ELSE [err |-> "ok", total |-> total, voided |-> autoCancel,
                     st |-> MarkClaimed(st1, key, caller),
                     bal |-> TokenMove(bal, Contract, caller, total)]

Refund(S) ==
  \E caller \in Users, slug \in S :
    LET r == NonReentrant(status,
               refund(Storage, balance, now, caller, slug)) IN
    /\ r.err = "ok"
    /\ Commit(r.st)
    /\ balance' = r.bal
    /\ paid' = [paid EXCEPT ![Key(slug)][caller].refunds = @ + 1,
                             ![Key(slug)][caller].amount = @ + r.total]
    /\ voidedBy' = IF r.voided
                     THEN [voidedBy EXCEPT ![Key(slug)] = "refund"]
                     ELSE voidedBy
    /\ last' = Call("refund", caller, slug, r.voided, r.total)
    /\ UNCHANGED <<now, status, pending>>

\* ------------------------------------------------------------ admin

\* setDeadline without the resolved and cancelled tests.
setDeadlineOnClosed(st, caller, slug, deadline) ==
  LET key == Key(slug)
      m == st.markets[key]
  IN IF ~IsOwner(caller) THEN Revert("OwnableUnauthorizedAccount")
     ELSE IF ~m.exists THEN Revert("MarketDoesNotExist")
     ELSE [err |-> "ok",
           st |-> [st EXCEPT !.markets[key].deadline = deadline]]

\* setDeadline that creates the market of a slug never staked on.
setDeadlineCreates(st, caller, slug, deadline) ==
  LET key == Key(slug)
      st1 == CreateIfNew(st, slug)
      m == st1.markets[key]
  IN IF ~IsOwner(caller) THEN Revert("OwnableUnauthorizedAccount")
     ELSE IF m.resolved THEN Revert("MarketAlreadyResolved")
     ELSE IF m.cancelled THEN Revert("MarketIsCancelled")
     ELSE [err |-> "ok",
           st |-> [st1 EXCEPT !.markets[key].deadline = deadline]]

\* setDeadline(marketSlug, deadline) called by caller.
setDeadline(st, caller, slug, deadline) ==
  LET key == Key(slug)
      m == st.markets[key]
  IN IF ~IsOwner(caller) THEN Revert("OwnableUnauthorizedAccount")
     ELSE IF ~m.exists THEN Revert("MarketDoesNotExist")
     ELSE IF m.resolved THEN Revert("MarketAlreadyResolved")
     ELSE IF m.cancelled THEN Revert("MarketIsCancelled")
     ELSE [err |-> "ok",
           st |-> [st EXCEPT !.markets[key].deadline = deadline]]

SetDeadline(S) ==
  \E caller \in Users, slug \in S, deadline \in Deadlines :
    LET r == setDeadline(Storage, caller, slug, deadline) IN
    /\ r.err = "ok"
    /\ Commit(r.st)
    /\ last' = Call("setDeadline", caller, slug, FALSE, deadline)
    /\ UNCHANGED <<balance, now, paid, voidedBy, status, pending>>

\* cancelMarket without the resolved test.
cancelMarketAnyTime(st, caller, slug) ==
  LET key == Key(slug)
      m == st.markets[key]
  IN IF ~IsOwner(caller) THEN Revert("OwnableUnauthorizedAccount")
     ELSE IF ~m.exists THEN Revert("MarketDoesNotExist")
     ELSE IF m.cancelled THEN Revert("MarketIsCancelled")
     ELSE [err |-> "ok",
           st |-> [st EXCEPT !.markets[key].cancelled = TRUE,
                             !.events[key].MarketCancelled = @ + 1]]

\* cancelMarket without the cancelled test.
cancelMarketTwice(st, caller, slug) ==
  LET key == Key(slug)
      m == st.markets[key]
  IN IF ~IsOwner(caller) THEN Revert("OwnableUnauthorizedAccount")
     ELSE IF ~m.exists THEN Revert("MarketDoesNotExist")
     ELSE IF m.resolved THEN Revert("MarketAlreadyResolved")
     ELSE [err |-> "ok",
           st |-> [st EXCEPT !.markets[key].cancelled = TRUE,
                             !.events[key].MarketCancelled = @ + 1]]

\* cancelMarket(marketSlug) called by caller.
cancelMarket(st, caller, slug) ==
  LET key == Key(slug)
      m == st.markets[key]
  IN IF ~IsOwner(caller) THEN Revert("OwnableUnauthorizedAccount")
     ELSE IF ~m.exists THEN Revert("MarketDoesNotExist")
     ELSE IF m.resolved THEN Revert("MarketAlreadyResolved")
     ELSE IF m.cancelled THEN Revert("MarketIsCancelled")
     ELSE [err |-> "ok",
           st |-> [st EXCEPT !.markets[key].cancelled = TRUE,
                             !.events[key].MarketCancelled = @ + 1]]

CancelMarket(S) ==
  \E caller \in Users, slug \in S :
    LET r == cancelMarket(Storage, caller, slug) IN
    /\ r.err = "ok"
    /\ Commit(r.st)
    /\ voidedBy' = [voidedBy EXCEPT ![Key(slug)] = "cancelMarket"]
    /\ last' = Call("cancelMarket", caller, slug, FALSE, 0)
    /\ UNCHANGED <<balance, now, paid, status, pending>>

\* emergencyWithdraw(token, amount) called by caller: the whole amount goes
\* to the owner, with no test but onlyOwner.  Only the staking token's
\* ledger is part of the state; a withdrawal of another token leaves it
\* alone.
emergencyWithdraw(bal, caller, token, amount) ==
  IF ~IsOwner(caller) THEN Revert("OwnableUnauthorizedAccount")
  ELSE IF token # "usdc" THEN [err |-> "ok", bal |-> bal]
  ELSE IF ~TokenCanMove(bal, Contract, amount) THEN Revert("TransferFailed")
  ELSE [err |-> "ok", bal |-> TokenMove(bal, Contract, Owner, amount)]

\* Swept tokens can be staked and swept again, so the pools have no bound
\* of their own: the runs stop sweeping once the recorded pools plus what
\* the owner holds would pass MaxStaked.
EmergencyWithdraw ==
  \E caller \in Users, token \in Tokens, amount \in SweepAmounts :
    LET r == emergencyWithdraw(balance, caller, token, amount) IN
    /\ r.err = "ok"
    /\ markets[Key("a")].totalYes + markets[Key("a")].totalNo
       + markets[Key("b")].totalYes + markets[Key("b")].totalNo
       + balance[Owner] + amount <= MaxStaked
    /\ balance' = r.bal
    /\ last' = Call("emergencyWithdraw", caller, "", token = "usdc", amount)
    /\ UNCHANGED <<markets, stakes, marketKeys, slugOf, events, now, paid,
                   voidedBy, status, pending>>

\* A holder sends staking tokens straight to the contract's address with
\* the token's own transfer: custody grows, the books do not.  The runs
\* let the owner do so, who can return what was swept.
SendTokens ==
  \E holder \in {Owner}, amount \in SweepAmounts :
    /\ pending = NoPending
    /\ TokenCanMove(balance, holder, amount)
    /\ balance' = TokenMove(balance, holder, Contract, amount)
    /\ last' = Call("transfer", holder, "", FALSE, amount)
    /\ UNCHANGED <<markets, stakes, marketKeys, slugOf, events, now, paid,
                   voidedBy, status, pending>>

\* ------------------------------------------------- calls in two steps

\* With a token that calls back during a transfer (the hooks of an
\* ERC-777-like token), a nonReentrant function is two steps: up to the
\* moment the token is called, and from its return on.  In between, the
\* functions without nonReentrant can run.  transferFrom calls the payer's
\* hook before it moves the amount, transfer calls the recipient's hook
\* after it has moved it.

\* stake down to the call of usdc.safeTransferFrom.
stakeEnter(st, t, slug, amount) ==
  IF slug = "" THEN Revert("EmptySlug")
  ELSE IF amount < MIN_STAKE THEN Revert("StakeTooSmall")
  ELSE
    LET st1 == CreateIfNew(st, slug)
        gate == StakeGate(st1.markets[Key(slug)], t)
    IN IF gate # "ok" THEN Revert(gate) ELSE [err |-> "ok", st |-> st1]

StakeCall(S) ==
  \E caller \in Users, slug \in S, isYes \in BOOLEAN, amount \in Amounts :
    LET r == NonReentrant(status, stakeEnter(Storage, now, slug, amount)) IN
    /\ r.err = "ok"
    /\ TokenCanMove(balance, caller, amount)
    /\ Commit(r.st)
    /\ status' = "ENTERED"
    /\ pending' = [NoPending EXCEPT !.op = "stake", !.caller = caller,
                                    !.slug = slug, !.flag = isYes,
                                    !.amount = amount]
    /\ UNCHANGED <<balance, now, paid, voidedBy, last>>

\* stake from the return of usdc.safeTransferFrom on: "Record stake", with
\* no further look at the market's flags.
StakeReturn ==
  /\ pending.op = "stake"
  /\ Commit(AddStake(Storage, pending.caller, Key(pending.slug),
                     pending.flag, pending.amount))
  /\ balance' = TokenMove(balance, pending.caller, Contract, pending.amount)
  /\ status' = "NOT_ENTERED"
  /\ pending' = NoPending
  /\ last' = Call("stake", pending.caller, pending.slug, pending.flag,
                  pending.amount)
  /\ UNCHANGED <<now, paid, voidedBy>>

\* batchStake down to the call of usdc.safeTransferFrom.
batchEnter(slugs, sides, amounts) ==
  IF Len(slugs) # Len(sides) \/ Len(sides) # Len(amounts)
    THEN Revert("ArrayLengthMismatch")
  ELSE SumAmounts(amounts)

BatchCall(S) ==
  \E caller \in Users, args \in WellFormedBatchArgs(S) :
    LET r == NonReentrant(status, batchEnter(args[1], args[2], args[3])) IN
    /\ r.err = "ok"
    /\ TokenCanMove(balance, caller, r.total)
    /\ status' = "ENTERED"
    /\ pending' = [NoPending EXCEPT
                     !.op = "batchStake", !.caller = caller,
                     !.amount = r.total, !.args = args,
                     !.saved = [st |-> Storage, balance |-> balance,
                                voidedBy |-> voidedBy]]
    /\ UNCHANGED <<markets, stakes, marketKeys, slugOf, events, balance, now,
                   paid, voidedBy, last>>

\* batchStake from the return of usdc.safeTransferFrom on: the second
\* loop.  When an entry reverts, the whole transaction is undone, the
\* calls made from the token's hook included.
BatchReturn ==
  /\ pending.op = "batchStake"
  /\ LET r == RecordAll(Storage, now, pending.caller, pending.args[1],
                        pending.args[2], pending.args[3], 1)
     IN IF r.err = "ok"
          THEN /\ Commit(r.st)
               /\ balance' = TokenMove(balance, pending.caller, Contract,
                                       pending.amount)
               /\ last' = Call("batchStake", pending.caller, "", FALSE,
                               pending.amount)
               /\ UNCHANGED voidedBy
          ELSE /\ Commit(pending.saved.st)
               /\ balance' = pending.saved.balance
               /\ voidedBy' = pending.saved.voidedBy
               /\ last' = NoCall
  /\ status' = "NOT_ENTERED"
  /\ pending' = NoPending
  /\ UNCHANGED <<now, paid>>

\* claim down to and including usdc.safeTransfer: the hook of the
\* recipient runs with claimed set and the payout moved.
ClaimCall(S) ==
  \E caller \in Users, slug \in S :
    LET r == NonReentrant(status, claim(Storage, balance, caller, slug)) IN
    /\ r.err = "ok"
    /\ Commit(r.st)
    /\ balance' = r.bal
    /\ paid' = [paid EXCEPT ![Key(slug)][caller].claims = @ + 1,
                             ![Key(slug)][caller].amount = @ + r.payout]
    /\ status' = "ENTERED"
    /\ pending' = [NoPending EXCEPT !.op = "claim", !.caller = caller,
                                    !.slug = slug, !.amount = r.payout]
    /\ UNCHANGED <<now, voidedBy, last>>

\* refund down to and including usdc.safeTransfer.
RefundCall(S) ==
  \E caller \in Users, slug \in S :
    LET r == NonReentrant(status,
               refund(Storage, balance, now, caller, slug)) IN
    /\ r.err = "ok"
    /\ Commit(r.st)
    /\ balance' = r.bal
    /\ paid' = [paid EXCEPT ![Key(slug)][caller].refunds = @ + 1,
                             ![Key(slug)][caller].amount = @ + r.total]
    /\ voidedBy' = IF r.voided
                     THEN [voidedBy EXCEPT ![Key(slug)] = "refund"]
                     ELSE voidedBy
    /\ status' = "ENTERED"
    /\ pending' = [NoPending EXCEPT !.op = "refund", !.caller = caller,
                                    !.slug = slug, !.flag = r.voided,
                                    !.amount = r.total]
    /\ UNCHANGED <<now, last>>

\* claim and refund from the return of usdc.safeTransfer on: the event,
\* and the guard is released.
PayoutReturn ==
  /\ pending.op \in {"claim", "refund"}
  /\ status' = "NOT_ENTERED"
  /\ pending' = NoPending
  /\ last' = Call(pending.op, pending.caller, pending.slug, pending.flag,
                  pending.amount)
  /\ UNCHANGED <<markets, stakes, marketKeys, slugOf, events, balance, now,
                 paid, voidedBy>>

\* ------------------------------------------------- reverted calls

\* revert: every storage write the call made before the failing transfer
\* is undone, and the storage is the one the call started from.
RolledBackLost(before, reached) == reached

\* revert that restores the stake records and leaves the markets' flags
\* as the call wrote them.
RolledBackFlagsKept(before, reached) ==
  [before EXCEPT !.markets = reached.markets, !.events = reached.events]

RolledBack(before, reached) == before

\* The storage refund has written when it reads the caller's stake: the
\* auto-cancel of an expired market is done, claimed is not yet set.
refundAtStakeTest(st, t, slug) ==
  LET key == Key(slug)
      m == st.markets[key]
      expired == /\ m.deadline > 0
                 /\ t > m.deadline + REFUND_GRACE_PERIOD
                 /\ ~m.resolved
  IN IF expired /\ ~m.cancelled THEN MarkCancelled(st, key) ELSE st

\* The storage refund has written when it calls usdc.safeTransfer.
refundReached(st, t, caller, slug) ==
  LET key == Key(slug)
      m == st.markets[key]
      expired == /\ m.deadline > 0
                 /\ t > m.deadline + REFUND_GRACE_PERIOD
                 /\ ~m.resolved
      st1 == IF expired /\ ~m.cancelled THEN MarkCancelled(st, key) ELSE st
  IN MarkClaimed(st1, key, caller)

\* The runs follow one reverted call.
NoBounceYet ==
  \A k \in Keys, u \in Users : paid[k][u].bounced = "none"

\* A stake whose transfer-in fails.
StakeReverts(S) ==
  \E caller \in Users, slug \in S, isYes \in BOOLEAN, amount \in Amounts :
    LET r == NonReentrant(status,
               stake(Storage, balance, now, caller, slug, isYes, amount)) IN
    /\ r.err = "TransferFailed"
    /\ NoBounceYet
    /\ Commit(RolledBack(Storage, stakeEnter(Storage, now, slug, amount).st))
    /\ paid' = [paid EXCEPT ![Key(slug)][caller].bounced = "stake"]
    /\ last' = Call("reverted", caller, slug, FALSE, 0)
    /\ UNCHANGED <<balance, now, voidedBy, status, pending>>

\* A claim whose transfer-out fails.
ClaimReverts(S) ==
  \E caller \in Users, slug \in S :
    LET r == NonReentrant(status, claim(Storage, balance, caller, slug)) IN
    /\ r.err = "TransferFailed"
    /\ NoBounceYet
    /\ Commit(RolledBack(Storage, MarkClaimed(Storage, Key(slug), caller)))
    /\ paid' = [paid EXCEPT ![Key(slug)][caller].bounced = "claim"]
    /\ last' = Call("reverted", caller, slug, FALSE, 0)
    /\ UNCHANGED <<balance, now, voidedBy, status, pending>>

\* A refund whose transfer-out fails.
RefundReverts(S) ==
  \E caller \in Users, slug \in S :
    LET r == NonReentrant(status,
               refund(Storage, balance, now, caller, slug)) IN
    /\ r.err = "TransferFailed"
    /\ NoBounceYet
    /\ Commit(RolledBack(Storage, refundReached(Storage, now, caller, slug)))
    /\ paid' = [paid EXCEPT ![Key(slug)][caller].bounced = "refund"]
    /\ last' = Call("reverted", caller, slug, FALSE, 0)
    /\ UNCHANGED <<balance, now, voidedBy, status, pending>>

\* ------------------------------------------------------------ time

\* A later block: block.timestamp only grows, and only between
\* transactions.
AdvanceTime ==
  \E t \in Instants :
    /\ pending = NoPending
    /\ t > now
    /\ now' = t
    /\ last' = NoCall
    /\ UNCHANGED <<markets, stakes, marketKeys, slugOf, events, balance, paid,
                   voidedBy, status, pending>>

\* ------------------------------------------------------------ system

\* One market, every function, the clock.
Next ==
  \/ Stake(OneMarket)
  \/ BatchStake(OneMarket)
  \/ Resolve(OneMarket)
  \/ Claim(OneMarket)
  \/ Refund(OneMarket)
  \/ SetDeadline(OneMarket)
  \/ CancelMarket(OneMarket)
  \/ AdvanceTime

Spec == Init /\ [][Next]_vars

\* Two markets sharing the pooled custody balance, at one instant.
NextMulti ==
  \/ Stake(TwoMarkets)
  \/ BatchStake(TwoMarkets)
  \/ Resolve(TwoMarkets)
  \/ Claim(TwoMarkets)
  \/ Refund(TwoMarkets)
  \/ CancelMarket(TwoMarkets)

\* The runs with two markets, and those with a token that calls back,
\* start with bob unfunded.
InitMulti ==
  /\ markets = [k \in Keys |-> ZeroMarket]
  /\ stakes = [k \in Keys |-> [u \in Users |-> ZeroStake]]
  /\ marketKeys = <<>>
  /\ slugOf = [k \in Keys |-> ""]
  /\ events = [k \in Keys |-> [MarketCreated |-> 0, MarketCancelled |-> 0]]
  /\ balance = [InitBalance EXCEPT !["bob"] = 0]
  /\ now = Deadline1
  /\ paid = [k \in Keys |-> [u \in Users |-> NeverPaid]]
  /\ voidedBy = [k \in Keys |-> "none"]
  /\ last = NoCall
  /\ status = "NOT_ENTERED"
  /\ pending = NoPending

SpecMulti == InitMulti /\ [][NextMulti]_vars

\* One market with a token that calls back: the nonReentrant functions in
\* two steps; resolve, cancelMarket and setDeadline at any moment, between
\* two calls or from inside a transfer.
NextReentrant ==
  \/ StakeCall(OneMarket)
  \/ StakeReturn
  \/ BatchCall(OneMarket)
  \/ BatchReturn
  \/ ClaimCall(OneMarket)
  \/ RefundCall(OneMarket)
  \/ PayoutReturn
  \/ Resolve(OneMarket)
  \/ CancelMarket(OneMarket)
  \/ SetDeadline(OneMarket)
  \/ AdvanceTime

SpecReentrant == InitMulti /\ [][NextReentrant]_vars

\* One market with the owner's sweep, and with the calls that a failing
\* token transfer reverts.
NextSweep ==
  \/ Stake(OneMarket)
  \/ Resolve(OneMarket)
  \/ Claim(OneMarket)
  \/ Refund(OneMarket)
  \/ SetDeadline(OneMarket)
  \/ CancelMarket(OneMarket)
  \/ EmergencyWithdraw
  \/ SendTokens
  \/ StakeReverts(OneMarket)
  \/ ClaimReverts(OneMarket)
  \/ RefundReverts(OneMarket)
  \/ AdvanceTime

SpecSweep == InitMulti /\ [][NextSweep]_vars

\* ============================================================ properties

TotalPool(k) == markets[k].totalYes + markets[k].totalNo

\* What was transferred out so far for market k, over all accounts.
PaidOut(k) ==
  paid[k]["owner"].amount + paid[k]["alice"].amount + paid[k]["bob"].amount

SumAmountYes(k) ==
  stakes[k]["owner"].amountYes + stakes[k]["alice"].amountYes
    + stakes[k]["bob"].amountYes

SumAmountNo(k) ==
  stakes[k]["owner"].amountNo + stakes[k]["alice"].amountNo
    + stakes[k]["bob"].amountNo

\* The results of the calls an account could make in the current state.
ClaimNow(u, slug) == claim(Storage, balance, u, slug)

RefundNow(u, slug) == refund(Storage, balance, now, u, slug)

ResolveNow(u, slug, outcomeYes) == resolve(Storage, u, slug, outcomeYes)

StakeNow(u, slug, isYes, amount) ==
  stake(Storage, balance, now, u, slug, isYes, amount)

BatchStakeNow(u, args) ==
  batchStake(Storage, balance, now, u, args[1], args[2], args[3])

\* ------------------------------------------------------------ C1

\* C1 (solvency): in every reachable state and for every market, the sum of
\* the amounts paid out so far by successful claim and refund calls is at
\* most the market's totalYes + totalNo.
C1_Solvency == \A k \in Keys : PaidOut(k) <= TotalPool(k)

\* Both winners of a market whose pool does not divide evenly have claimed:
\* the payouts were rounded down and one base unit of dust stays in custody.
C1_Witness ==
  \E k \in Keys :
    /\ markets[k].resolved /\ ~markets[k].cancelled
    /\ paid[k]["alice"].claims = 1 /\ paid[k]["bob"].claims = 1
    /\ PaidOut(k) = TotalPool(k) - 1

\* ------------------------------------------------------------ C2

\* C2 as stated: per (market, participant) at most one successful
\* claim-or-refund; the claimed flag is set exactly by that payout and never
\* cleared; after it a claim is rejected with AlreadyClaimed and a refund,
\* whether it follows a refund or a claim, with NothingToRefund.
C2_AsStated ==
  \A s \in Slugs, u \in Users :
    LET p == paid[Key(s)][u] IN
    /\ p.claims + p.refunds <= 1
    /\ stakes[Key(s)][u].claimed <=> (p.claims + p.refunds = 1)
    /\ p.claims = 1 => /\ ClaimNow(u, s).err = "AlreadyClaimed"
                       /\ RefundNow(u, s).err = "NothingToRefund"
    /\ p.refunds = 1 => RefundNow(u, s).err = "NothingToRefund"

\* C2 (amended): per (market, participant) at most one successful
\* claim-or-refund; the claimed flag is set exactly by that payout and never
\* cleared (the history counters only grow); after a claim a second claim is
\* rejected with AlreadyClaimed and a refund is rejected before the claimed
\* flag is read, with RefundNotAvailable (or the overflow panic of the
\* eligibility test), because the market is resolved and not cancelled; after
\* a refund a second refund is rejected with NothingToRefund and a claim is
\* rejected too (MarketNotResolved or MarketIsCancelled).
C2_NoDoublePayout ==
  \A s \in Slugs, u \in Users :
    LET p == paid[Key(s)][u] IN
    /\ p.claims + p.refunds <= 1
    /\ stakes[Key(s)][u].claimed <=> (p.claims + p.refunds = 1)
    /\ p.claims = 1 =>
         /\ ClaimNow(u, s).err = "AlreadyClaimed"
         /\ RefundNow(u, s).err \in {"RefundNotAvailable", "Panic"}
    /\ p.refunds = 1 =>
         /\ RefundNow(u, s).err = "NothingToRefund"
         /\ ClaimNow(u, s).err \in {"MarketNotResolved", "MarketIsCancelled"}

\* A participant was refunded while custody still holds another
\* participant's stake, so a second refund would find funds to take.
C2_Witness ==
  \E s \in Slugs :
    /\ paid[Key(s)]["alice"].refunds = 1
    /\ stakes[Key(s)]["alice"].claimed
    /\ balance[Contract] >= stakes[Key(s)]["alice"].amountYes
                              + stakes[Key(s)]["alice"].amountNo

\* ------------------------------------------------------------ C3

\* C3: in every reachable state and for every market, totalYes is the sum of
\* the participants' amountYes and totalNo the sum of their amountNo.
C3_TotalsAreSums ==
  \A k \in Keys :
    /\ markets[k].totalYes = SumAmountYes(k)
    /\ markets[k].totalNo = SumAmountNo(k)

\* Two participants on the same side, one of them also on the other side.
C3_Witness ==
  \E k \in Keys :
    /\ stakes[k]["alice"].amountYes > 0 /\ stakes[k]["bob"].amountYes > 0
    /\ stakes[k]["alice"].amountNo > 0

\* ------------------------------------------------------------ C4

\* What market k still holds for its participants.
Owed(k) == TotalPool(k) - PaidOut(k)

\* What participant u can still withdraw from market k: the refund of a
\* cancelled or expired market, the payout of a resolved one.
Entitled(k, u) ==
  LET m == markets[k]
      s == stakes[k][u]
      expired == /\ m.deadline > 0 /\ ~GraceOverflows(m.deadline)
                 /\ now > m.deadline + REFUND_GRACE_PERIOD /\ ~m.resolved
      w == IF m.outcomeYes THEN s.amountYes ELSE s.amountNo
  IN IF s.claimed THEN 0
     ELSE IF m.cancelled \/ expired THEN s.amountYes + s.amountNo
     ELSE IF m.resolved /\ w > 0
       THEN Payout(w, TotalPool(k), WinningPool(m, m.outcomeYes))
     ELSE 0

EntitledIn(k) == Entitled(k, "owner") + Entitled(k, "alice") + Entitled(k, "bob")

Limb == 100 * 100

Product(a, b) ==
  LET a1 == a \div Limb
      a0 == a % Limb
      b1 == b \div Limb
      b0 == b % Limb
      low == a0 * b0
      mid == a1 * b0 + a0 * b1 + (low \div Limb)
  IN <<a1 * b1 + (mid \div Limb), mid % Limb, low % Limb>>

ProductLess(p, q) ==
  \/ p[1] < q[1]
  \/ p[1] = q[1] /\ p[2] < q[2]
  \/ p[1] = q[1] /\ p[2] = q[2] /\ p[3] < q[3]

\* q = floor(w * T / W):  q * W <= w * T < (q + 1) * W.
IsFloorOfShare(q, w, T, W) ==
  /\ ~ProductLess(Product(w, T), Product(q, W))
  /\ ProductLess(Product(w, T), Product(q + 1, W))

\* C5 (proportionality): a successful claim by a participant with stake w on
\* the recorded winning side, winning pool W and total pool T moves exactly
\* floor(w * T / W) from custody to the caller.
C5_PayoutIsFloorOfShare ==
  [][last'.op = "claim" =>
       LET k == Key(last'.slug)
           c == last'.caller
           m == markets[k]
           w == IF m.outcomeYes THEN stakes[k][c].amountYes
                                ELSE stakes[k][c].amountNo
           W == IF m.outcomeYes THEN m.totalYes ELSE m.totalNo
           q == balance'[c] - balance[c]
       IN /\ W > 0
          /\ IsFloorOfShare(q, w, TotalPool(k), W)
          /\ balance'[Contract] = balance[Contract] - q
          /\ \A u \in Users \ {c} : balance'[u] = balance[u]]_vars

\* A claim was just paid whose share is not a whole number: the payout was
\* rounded down.
C5_Witness ==
  /\ last.op = "claim"
  /\ LET k == Key(last.slug)
         m == markets[k]
         w == IF m.outcomeYes THEN stakes[k][last.caller].amountYes
                              ELSE stakes[k][last.caller].amountNo
         W == IF m.outcomeYes THEN m.totalYes ELSE m.totalNo
     IN /\ m.totalYes > 0 /\ m.totalNo > 0
        /\ ProductLess(Product(last.amount, W), Product(w, TotalPool(k)))

\* ------------------------------------------------------------ C6

\* C6 (stake's effect): a successful stake(slug, isYes, a) by c moves exactly
\* a from c into custody and adds exactly a to the market's total and to c's
\* amount on the chosen side; the other side's total, c's other-side amount
\* and claimed flag, every other participant's record and every other
\* balance are unchanged.
C6_StakeEffect ==
  [][last'.op = "stake" =>
       LET k == Key(last'.slug)
           c == last'.caller
           a == last'.amount
       IN /\ balance'[c] = balance[c] - a
          /\ balance'[Contract] = balance[Contract] + a
          /\ \A u \in Users \ {c} : balance'[u] = balance[u]
          /\ IF last'.flag
               THEN /\ markets'[k].totalYes = markets[k].totalYes + a
                    /\ markets'[k].totalNo = markets[k].totalNo
                    /\ stakes'[k][c].amountYes = stakes[k][c].amountYes + a
                    /\ stakes'[k][c].amountNo = stakes[k][c].amountNo
               ELSE /\ markets'[k].totalNo = markets[k].totalNo + a
                    /\ markets'[k].totalYes = markets[k].totalYes
                    /\ stakes'[k][c].amountNo = stakes[k][c].amountNo + a
                    /\ stakes'[k][c].amountYes = stakes[k][c].amountYes
          /\ stakes'[k][c].claimed = stakes[k][c].claimed
          /\ \A u \in Users \ {c} : stakes'[k][u] = stakes[k][u]
          /\ \A k2 \in Keys \ {k} : stakes'[k2] = stakes[k2]]_vars

\* A stake was just added to a position the caller already held on the NO
\* side, in a market where someone holds YES.
C6_Witness ==
  /\ last.op = "stake" /\ ~last.flag
  /\ stakes[Key(last.slug)][last.caller].amountNo > last.amount
  /\ markets[Key(last.slug)].totalYes > 0

\* ------------------------------------------------------------ C7

\* C7 (resolve's effect): a successful resolve(slug, outcome) sets resolved
\* and outcomeYes = outcome, and sets cancelled exactly when the winning
\* pool read before the update is zero; otherwise cancelled stays false.
C7_ResolveEffect ==
  [][last'.op = "resolve" =>
       LET k == Key(last'.slug)
           pool == IF last'.flag THEN markets[k].totalYes
                                 ELSE markets[k].totalNo
       IN /\ ~markets[k].resolved /\ ~markets[k].cancelled
          /\ markets'[k].resolved
          /\ markets'[k].outcomeYes = last'.flag
          /\ markets'[k].cancelled <=> (pool = 0)]_vars

\* The market was just resolved NO although only YES had been staked: it is
\* resolved and cancelled at once.
C7_Witness ==
  /\ last.op = "resolve" /\ ~last.flag
  /\ LET m == markets[Key(last.slug)]
     IN m.resolved /\ m.cancelled /\ ~m.outcomeYes /\ m.totalYes > 0

\* ------------------------------------------------------------ C8

\* C8 (after auto-void): once a market was resolved to a side with nothing
\* staked on it, every claim on it is rejected with MarketIsCancelled and
\* every participant with a positive unclaimed stake can refund exactly
\* amountYes + amountNo.
C8_AfterAutoVoid ==
  \A s \in Slugs, u \in Users :
    voidedBy[Key(s)] = "resolve" =>
      /\ ClaimNow(u, s).err = "MarketIsCancelled"
      /\ LET p == stakes[Key(s)][u]
         IN (p.amountYes + p.amountNo > 0 /\ ~p.claimed) =>
              /\ RefundNow(u, s).err = "ok"
              /\ RefundNow(u, s).total = p.amountYes + p.amountNo

\* ------------------------------------------------------------ C9

\* C9 (refund eligibility): for an existing market, refund is rejected with
\* RefundNotAvailable exactly when cancelled is false and not (deadline > 0
\* and now > deadline + REFUND_GRACE_PERIOD and resolved is false).  The
\* comparison is written with the grace period subtracted from now, which is
\* the same comparison over the integers.
C9_RefundNotAvailableExactly ==
  \A s \in Slugs, u \in Users :
    LET m == markets[Key(s)]
    IN m.exists =>
         ((RefundNow(u, s).err = "RefundNotAvailable") <=>
            /\ ~m.cancelled
            /\ ~(/\ m.deadline > 0
                 /\ now - REFUND_GRACE_PERIOD > m.deadline
                 /\ ~m.resolved))

\* ------------------------------------------------------------ C10

\* C10 (expiry refund voids for good): a successful refund of a market that
\* was not cancelled before the call was taken on an unresolved market past
\* deadline + grace and sets cancelled; from then on the market stays
\* cancelled and unresolved, the authority's resolve is rejected with
\* MarketIsCancelled for either outcome, nobody's resolve succeeds, and every
\* claim is rejected because the market is not resolved.
C10_ExpiryRefundVoids ==
  /\ [][(last'.op = "refund" /\ ~markets[Key(last'.slug)].cancelled) =>
          LET k == Key(last'.slug)
          IN /\ ~markets[k].resolved
             /\ markets[k].deadline > 0
             /\ now - REFUND_GRACE_PERIOD > markets[k].deadline
             /\ markets'[k].cancelled
             /\ voidedBy'[k] = "refund"]_vars
  /\ [](\A s \in Slugs :
          voidedBy[Key(s)] = "refund" =>
            /\ markets[Key(s)].cancelled
            /\ ~markets[Key(s)].resolved
            /\ \A o \in BOOLEAN :
                 /\ ResolveNow(Owner, s, o).err = "MarketIsCancelled"
                 /\ \A u \in Users : ResolveNow(u, s, o).err # "ok"
            /\ \A u \in Users : ClaimNow(u, s).err = "MarketNotResolved")

\* A market voided by an expiry refund in which another participant still
\* holds an unclaimed stake, on a side that would have won had the authority
\* been able to resolve late.
C10_Witness ==
  /\ voidedBy[Key("a")] = "refund"
  /\ stakes[Key("a")]["alice"].claimed
  /\ ~stakes[Key("a")]["bob"].claimed
  /\ stakes[Key("a")]["bob"].amountYes > 0

\* ------------------------------------------------------------ C11

\* C11 (deadline gate of stake): on an existing, unresolved, uncancelled
\* market a stake with a non-empty slug and an amount of at least MIN_STAKE
\* is rejected with MarketExpired exactly when a deadline is set and
\* now > deadline; with no deadline or now <= deadline it is accepted (the
\* caller holding the amount), and no stake ever lands on an existing market
\* past its deadline.
C11_StakeDeadlineGate ==
  /\ [](\A s \in Slugs \ {""}, u \in Users, y \in BOOLEAN,
          a \in {x \in Amounts : x >= MIN_STAKE} :
          LET m == markets[Key(s)]
              r == StakeNow(u, s, y, a)
          IN (m.exists /\ ~m.resolved /\ ~m.cancelled) =>
               IF m.deadline > 0 /\ now > m.deadline
                 THEN r.err = "MarketExpired"
                 ELSE IF balance[u] >= a THEN r.err = "ok"
                                         ELSE r.err = "TransferFailed")
  /\ [][(last'.op = "stake" /\ markets[Key(last'.slug)].exists) =>
          LET m == markets[Key(last'.slug)]
          IN m.deadline = 0 \/ now <= m.deadline]_vars

\* A stake was just accepted on an already existing market at the very
\* instant of its deadline.
C11_Witness ==
  /\ last.op = "stake"
  /\ markets[Key(last.slug)].deadline = now
  /\ TotalPool(Key(last.slug)) > last.amount

\* ------------------------------------------------------------ C12

\* The equal-length batches over slugs S.
Batches(S) ==
  {args \in BatchArgs(S) :
     Len(args[1]) = Len(args[2]) /\ Len(args[2]) = Len(args[3])}

\* C12 (batch floor): a batchStake with any entry amount below MIN_STAKE is
\* rejected as a whole with StakeTooSmall, whoever calls it and whatever the
\* other entries are: the token is never called, and the revert writes no
\* storage and no ledger entry.
C12_BatchRejectsSmallAmount ==
  \A u \in Users, args \in Batches(OneMarket) :
    (\E i \in 1..Len(args[3]) : args[3][i] < MIN_STAKE) =>
      LET r == BatchStakeNow(u, args)
      IN /\ r.err = "StakeTooSmall"
         /\ r.transferCalls = 0
         /\ DOMAIN r = {"err", "transferCalls"}

\* Market "a" is open with stakes on it and alice, who could pay for both
\* entries and whose first entry alone would be accepted, has her batch
\* rejected for the second entry's amount.
C12_Witness ==
  /\ markets[Key("a")].exists /\ TotalPool(Key("a")) > 0
  /\ balance["alice"] >= 2 * MIN_STAKE - 1
  /\ StakeNow("alice", "a", TRUE, MIN_STAKE).err = "ok"
  /\ BatchStakeNow("alice", <<<<"a", "a">>, <<TRUE, FALSE>>,
                              <<MIN_STAKE, MIN_STAKE - 1>>>>).err
       = "StakeTooSmall"

\* ------------------------------------------------------------ C13

\* Entry i of a batch fails one of the per-entry preconditions in the
\* current state: empty slug, amount below MIN_STAKE, or a market that is
\* resolved, cancelled or past its deadline.
EntryInvalid(args, i) ==
  \/ args[1][i] = ""
  \/ args[3][i] < MIN_STAKE
  \/ LET m == markets[Key(args[1][i])]
     IN m.resolved \/ m.cancelled \/ (m.deadline > 0 /\ now > m.deadline)

\* C13 (validate, then transfer): when any entry of a batchStake fails a
\* per-entry precondition, the batch fails and it fails before the custody
\* transfer-in is invoked.
C13_BatchValidatesBeforeTransfer ==
  \A u \in Users, args \in Batches(OneMarket) :
    (\E i \in 1..Len(args[1]) : EntryInvalid(args, i)) =>
      LET r == BatchStakeNow(u, args)
      IN r.err # "ok" /\ r.transferCalls = 0

\* ------------------------------------------------------------ C14

\* The sum of the amounts of the entries i, i+1, ... of a batch that name
\* slug s and side y.
RECURSIVE EntrySum(_, _, _, _)
EntrySum(args, s, y, i) ==
  IF i > Len(args[1]) THEN 0
  ELSE (IF args[1][i] = s /\ args[2][i] = y THEN args[3][i] ELSE 0)
       + EntrySum(args, s, y, i + 1)

\* The sum of all the amounts of a batch.
BatchSum(args) ==
  EntrySum(args, "", TRUE, 1) + EntrySum(args, "", FALSE, 1)
  + EntrySum(args, "a", TRUE, 1) + EntrySum(args, "a", FALSE, 1)
  + EntrySum(args, "b", TRUE, 1) + EntrySum(args, "b", FALSE, 1)

\* C14 (batch effect): a successful batchStake calls the token exactly once,
\* moving the sum of all entry amounts from the caller into custody; every
\* market's side total and the caller's side amount grow by the sum of the
\* entries naming that slug and side, nothing else in the stake table
\* changes, and so the totals grow by that same sum.
C14_BatchEffect ==
  /\ [](\A u \in Users, args \in Batches(TwoMarkets) :
          LET r == BatchStakeNow(u, args)
          IN r.err = "ok" =>
               /\ r.transferCalls = 1
               /\ r.total = BatchSum(args)
               /\ r.bal = [balance EXCEPT ![u] = @ - BatchSum(args),
                                          ![Contract] = @ + BatchSum(args)]
               /\ \A s \in Slugs :
                    LET k == Key(s)
                        yes == EntrySum(args, s, TRUE, 1)
                        no == EntrySum(args, s, FALSE, 1)
                    IN /\ r.st.markets[k].totalYes = markets[k].totalYes + yes
                       /\ r.st.markets[k].totalNo = markets[k].totalNo + no
                       /\ r.st.stakes[k] =
                            [stakes[k] EXCEPT ![u].amountYes = @ + yes,
                                              ![u].amountNo = @ + no])
  /\ [][last'.op = "batchStake" =>
          LET c == last'.caller
              a == last'.amount
              k1 == Key("a")
              k2 == Key("b")
          IN /\ balance'[Contract] = balance[Contract] + a
             /\ balance'[c] = balance[c] - a
             /\ (markets'[k1].totalYes + markets'[k1].totalNo
                 + markets'[k2].totalYes + markets'[k2].totalNo)
                = TotalPool(k1) + TotalPool(k2) + a
             /\ (stakes'[k1][c].amountYes + stakes'[k1][c].amountNo
                 + stakes'[k2][c].amountYes + stakes'[k2][c].amountNo)
                = stakes[k1][c].amountYes + stakes[k1][c].amountNo
                  + stakes[k2][c].amountYes + stakes[k2][c].amountNo + a]_vars

\* One batch of two entries just put alice on YES in market "a" and on NO
\* in market "b" with a single pull of both amounts.
C14_Witness ==
  /\ last.op = "batchStake" /\ last.caller = "alice"
  /\ last.amount = 2 * MIN_STAKE
  /\ stakes[Key("a")]["alice"] =
       [amountYes |-> MIN_STAKE, amountNo |-> 0, claimed |-> FALSE]
  /\ stakes[Key("b")]["alice"] =
       [amountYes |-> 0, amountNo |-> MIN_STAKE, claimed |-> FALSE]
  /\ balance[Contract] = StrayFunds + 2 * MIN_STAKE

\* ------------------------------------------------------------ C15

\* marketCount(): marketKeys.length.
marketCount == Len(marketKeys)

\* C15 (creation happens once): a market exists exactly when one
\* MarketCreated was emitted for its slug, and never more than one is;
\* marketCount is the number of existing markets and marketKeys lists each
\* of them once.  A successful stake on an unseen slug creates the market
\* (exists, one event, marketCount + 1, the slug recorded); a stake on a
\* slug already seen, by any caller, leaves marketCount and the events as
\* they were; no function other than stake and batchStake creates a market.
C15_CreatedOnce ==
  /\ [](/\ \A k \in Keys :
             events[k].MarketCreated = IF markets[k].exists THEN 1 ELSE 0
        /\ marketCount = Cardinality({k \in Keys : markets[k].exists})
        /\ \A i \in 1..marketCount :
             /\ markets[marketKeys[i]].exists
             /\ \A j \in 1..marketCount :
                  marketKeys[i] = marketKeys[j] => i = j)
  /\ [][/\ last'.op = "stake" =>
             LET k == Key(last'.slug)
             IN /\ markets'[k].exists
                /\ IF markets[k].exists
                     THEN /\ marketKeys' = marketKeys
                          /\ \A k2 \in Keys : events'[k2].MarketCreated
                                              = events[k2].MarketCreated
                     ELSE /\ marketKeys' = Append(marketKeys, k)
                          /\ slugOf'[k] = last'.slug
                          /\ events'[k].MarketCreated = 1
        /\ last'.op \notin {"stake", "batchStake"} =>
             /\ marketKeys' = marketKeys
             /\ \A k \in Keys : /\ markets'[k].exists = markets[k].exists
                                /\ events'[k].MarketCreated
                                   = events[k].MarketCreated]_vars

\* Two callers have staked on the same slug, the second just now: one
\* market, one creation event.
C15_Witness ==
  /\ last.op = "stake" /\ last.slug = "a" /\ last.caller = "bob"
  /\ stakes[Key("a")]["alice"].amountYes > 0
  /\ stakes[Key("a")]["bob"].amountNo > 0
  /\ marketCount = 1
  /\ events[Key("a")].MarketCreated = 1

\* ------------------------------------------------------------ C16

\* C16 (one-way lifecycle): in every step and for every market, exists,
\* resolved and cancelled stay true once true; a resolved, uncancelled
\* market stays resolved and uncancelled, and a cancelled market stays
\* cancelled with its resolved flag as it was.
C16_LifecycleMonotonic ==
  [][\A k \in Keys :
       /\ markets[k].exists => markets'[k].exists
       /\ markets[k].resolved => markets'[k].resolved
       /\ markets[k].cancelled => markets'[k].cancelled
       /\ (markets[k].resolved /\ ~markets[k].cancelled) =>
            ~markets'[k].cancelled
       /\ markets[k].cancelled =>
            markets'[k].resolved = markets[k].resolved]_vars

\* A market resolved before its deadline is still resolved and uncancelled
\* after the grace period has run out and a winner has claimed.
C16_Witness ==
  /\ markets[Key("a")].resolved /\ ~markets[Key("a")].cancelled
  /\ markets[Key("a")].deadline = Deadline1
  /\ now > Deadline1 + REFUND_GRACE_PERIOD
  /\ last.op = "claim"

\* ------------------------------------------------------------ C17

\* The error with which a resolved or cancelled market turns a stake away.
ClosedError(m) ==
  IF m.resolved THEN "MarketAlreadyResolved" ELSE "MarketIsCancelled"

C18_OutcomeWrittenOnce ==
  /\ [](\A s \in Slugs, o \in BOOLEAN :
          LET m == markets[Key(s)]
              r == ResolveNow(Owner, s, o)
          IN /\ r.err = IF ~m.exists THEN "MarketDoesNotExist"
                        ELSE IF m.resolved THEN "MarketAlreadyResolved"
                        ELSE IF m.cancelled THEN "MarketIsCancelled"
                        ELSE "ok"
             /\ r.err # "ok" => DOMAIN r = {"err"}
             /\ \A u \in Users \ {Owner} :
                  /\ ResolveNow(u, s, o).err # "ok"
                  /\ DOMAIN ResolveNow(u, s, o) = {"err"})
  /\ [][\A k \in Keys :
          /\ markets[k].resolved =>
               markets'[k].outcomeYes = markets[k].outcomeYes
          /\ markets'[k].outcomeYes # markets[k].outcomeYes =>
               /\ last'.op = "resolve" /\ Key(last'.slug) = k
               /\ ~markets[k].resolved /\ ~markets[k].cancelled]_vars

\* A market resolved YES has paid a winner, time has moved on, and the
\* authority's attempt to resolve it NO is turned away.
C18_Witness ==
  /\ markets[Key("a")].resolved /\ markets[Key("a")].outcomeYes
  /\ ~markets[Key("a")].cancelled
  /\ \E u \in Users : paid[Key("a")][u].claims = 1
  /\ now > Deadline1
  /\ ResolveNow(Owner, "a", FALSE).err = "MarketAlreadyResolved"

\* ------------------------------------------------------------ C19

\* C19 (claim's preconditions): claim succeeds exactly when the market
\* exists, is resolved, is not cancelled, the caller has not claimed and the
\* caller's stake on the recorded winning side is positive; otherwise it is
\* rejected with MarketDoesNotExist, MarketNotResolved, MarketIsCancelled,
\* AlreadyClaimed or NothingToClaim, the first that applies in that order,
\* and writes nothing.  Nobody is ever paid a claim without a stake on the
\* winning side.
C19_ClaimPreconditions ==
  \A s \in Slugs, u \in Users :
    LET k == Key(s)
        m == markets[k]
        p == stakes[k][u]
        won == IF m.outcomeYes THEN p.amountYes ELSE p.amountNo
        r == ClaimNow(u, s)
    IN /\ r.err = IF ~m.exists THEN "MarketDoesNotExist"
                  ELSE IF ~m.resolved THEN "MarketNotResolved"
                  ELSE IF m.cancelled THEN "MarketIsCancelled"
                  ELSE IF p.claimed THEN "AlreadyClaimed"
                  ELSE IF won = 0 THEN "NothingToClaim"
                  ELSE "ok"
       /\ r.err # "ok" => DOMAIN r = {"err"}
       /\ paid[k][u].claims > 0 =>
            /\ m.resolved /\ ~m.cancelled /\ won > 0
            /\ paid[k][u].amount > 0

\* The winner has just been paid the whole pool; the participant who staked
\* only on the losing side is told there is nothing to claim and has
\* received nothing.
C19_Witness ==
  /\ last.op = "claim" /\ last.caller = "alice" /\ last.slug = "a"
  /\ last.amount = TotalPool(Key("a"))
  /\ stakes[Key("a")]["bob"].amountYes + stakes[Key("a")]["bob"].amountNo > 0
  /\ ClaimNow("bob", "a").err = "NothingToClaim"
  /\ paid[Key("a")]["bob"] = NeverPaid

\* ------------------------------------------------------------ C20

\* The market is open to refunds: cancelled, or unresolved with a deadline
\* that lies more than the grace period in the past.
Refundable(m) ==
  \/ m.cancelled
  \/ (m.deadline > 0 /\ now - REFUND_GRACE_PERIOD > m.deadline /\ ~m.resolved)

\* C20 (refund amount): a successful refund moves exactly the caller's
\* amountYes + amountNo for that market from custody to the caller, whatever
\* outcome is recorded; on a market open to refunds, a refund by a caller
\* whose amountYes + amountNo is zero is rejected with NothingToRefund, and
\* such a caller is never paid a refund.
C20_RefundAmount ==
  /\ [][last'.op = "refund" =>
          LET k == Key(last'.slug)
              c == last'.caller
              total == stakes[k][c].amountYes + stakes[k][c].amountNo
          IN /\ total > 0
             /\ balance'[c] = balance[c] + total
             /\ balance'[Contract] = balance[Contract] - total
             /\ \A u \in Users \ {c} : balance'[u] = balance[u]]_vars
  /\ [](\A s \in Slugs, u \in Users :
          LET m == markets[Key(s)]
              p == stakes[Key(s)][u]
          IN p.amountYes + p.amountNo = 0 =>
               /\ paid[Key(s)][u].refunds = 0
               /\ (m.exists /\ Refundable(m)) =>
                    RefundNow(u, s).err = "NothingToRefund")

\* ------------------------------------------------------------ C21

\* C21 (flag before transfer): while the transfer-out of a claim or refund
\* is in progress the caller's claimed flag is already true, so the bodies
\* of claim and refund, entered again for the same market and participant,
\* pay nothing even without the guard, and with the guard the re-entering
\* call is rejected outright; no (market, participant) is ever paid twice.
C21_FlagSetBeforeTransfer ==
  /\ pending.op \in {"claim", "refund"} =>
       LET k == Key(pending.slug)
           c == pending.caller
       IN /\ stakes[k][c].claimed
          /\ paid[k][c].claims + paid[k][c].refunds = 1
          /\ claim(Storage, balance, c, pending.slug).err # "ok"
          /\ refund(Storage, balance, now, c, pending.slug).err # "ok"
          /\ NonReentrant(status, ClaimNow(c, pending.slug)).err
               = "ReentrancyGuardReentrantCall"
          /\ NonReentrant(status, RefundNow(c, pending.slug)).err
               = "ReentrancyGuardReentrantCall"
  /\ \A s \in Slugs, u \in Users :
       paid[Key(s)][u].claims + paid[Key(s)][u].refunds <= 1

\* alice's claim is inside its transfer-out: the payout has left custody
\* and her hook is running.
C21_Witness ==
  /\ pending.op = "claim" /\ pending.caller = "alice"
  /\ pending.amount > 0
  /\ balance[Contract] < StrayFunds + TotalPool(Key(pending.slug))
  /\ status = "ENTERED"

\* ------------------------------------------------------------ C22

\* C22 (re-entry is harmless): while a token transfer made by the contract
\* is in progress, stake, batchStake, claim and refund entered again are
\* rejected, and whatever else runs from the token's hook leaves the books
\* sound: no stake is ever recorded into a market that, at the moment of
\* recording, is resolved or cancelled.
C22_ReentryHarmless ==
  /\ [](status = "ENTERED" =>
          \A u \in Users, s \in Slugs :
            /\ NonReentrant(status, StakeNow(u, s, TRUE, MIN_STAKE)).err
                 = "ReentrancyGuardReentrantCall"
            /\ NonReentrant(status, ClaimNow(u, s)).err
                 = "ReentrancyGuardReentrantCall"
            /\ NonReentrant(status, RefundNow(u, s)).err
                 = "ReentrancyGuardReentrantCall")
  /\ [][\A k \in Keys :
          (markets'[k].totalYes + markets'[k].totalNo > TotalPool(k)) =>
            ~markets[k].resolved /\ ~markets[k].cancelled]_vars

\* ------------------------------------------------------------ C23

\* C23 (rejections are atomic): a call reverted by a failing token transfer
\* leaves the markets, the stake table, the enumeration, the events, the
\* token ledger and the guard exactly as they were: the market of a new
\* slug is not created, claimed stays false and, on the expiry path,
\* cancelled stays false.  No rejection of any function carries a storage
\* or a ledger to commit.
C23_RejectionsAtomic ==
  /\ [][(\E k \in Keys, u \in Users :
           paid'[k][u].bounced # paid[k][u].bounced) =>
          /\ markets' = markets
          /\ stakes' = stakes
          /\ marketKeys' = marketKeys
          /\ slugOf' = slugOf
          /\ events' = events
          /\ balance' = balance
          /\ status' = status]_vars
  /\ [](\A u \in Users, s \in Slugs :
          LET rejected(r) ==
                r.err # "ok" => ("st" \notin DOMAIN r /\ "bal" \notin DOMAIN r)
          IN /\ \A y \in BOOLEAN, a \in Amounts : rejected(StakeNow(u, s, y, a))
             /\ rejected(ClaimNow(u, s))
             /\ rejected(RefundNow(u, s))
             /\ \A o \in BOOLEAN : rejected(ResolveNow(u, s, o))
             /\ \A d \in Deadlines : rejected(setDeadline(Storage, u, s, d))
             /\ rejected(cancelMarket(Storage, u, s))
             /\ \A t \in Tokens, a \in SweepAmounts :
                  rejected(emergencyWithdraw(balance, u, t, a)))

\* alice's claim was once reverted because custody had been swept; the
\* tokens came back and the same claim has now been paid.
C23_Witness ==
  /\ paid[Key("a")]["alice"].bounced = "claim"
  /\ paid[Key("a")]["alice"].claims = 1
  /\ stakes[Key("a")]["alice"].claimed

\* ------------------------------------------------------------ C24

\* C24 (authority): resolve, setDeadline, cancelMarket and emergencyWithdraw
\* called by anyone but the owner are rejected as unauthorized, whatever
\* the arguments and the state, and write nothing; every step of one of the
\* four is the owner's.  stake, batchStake, claim and refund never reject a
\* caller as unauthorized.
C24_OwnerOnlyAdmin ==
  /\ [](\A u \in Users \ {Owner}, s \in Slugs :
          /\ \A o \in BOOLEAN :
               ResolveNow(u, s, o) = Revert("OwnableUnauthorizedAccount")
          /\ \A d \in Deadlines :
               setDeadline(Storage, u, s, d)
                 = Revert("OwnableUnauthorizedAccount")
          /\ cancelMarket(Storage, u, s)
               = Revert("OwnableUnauthorizedAccount")
          /\ \A t \in Tokens, a \in SweepAmounts :
               emergencyWithdraw(balance, u, t, a)
                 = Revert("OwnableUnauthorizedAccount"))
  /\ [](\A u \in Users :
          /\ \A s \in Slugs :
               /\ \A y \in BOOLEAN, a \in Amounts :
                    StakeNow(u, s, y, a).err # "OwnableUnauthorizedAccount"
               /\ ClaimNow(u, s).err # "OwnableUnauthorizedAccount"
               /\ RefundNow(u, s).err # "OwnableUnauthorizedAccount"
          /\ \A args \in WellFormedBatchArgs(OneMarket) :
               BatchStakeNow(u, args).err # "OwnableUnauthorizedAccount")
  /\ [][last'.op \in {"resolve", "setDeadline", "cancelMarket",
                      "emergencyWithdraw"} => last'.caller = Owner]_vars

\* alice and the owner have both staked, alice has been paid her claim,
\* and the owner has just swept: the owner's functions ran for the owner,
\* the others for whoever called.
C24_Witness ==
  /\ stakes[Key("a")]["alice"].amountYes > 0
  /\ stakes[Key("a")]["owner"].amountNo > 0
  /\ paid[Key("a")]["alice"].claims = 1
  /\ last.op = "emergencyWithdraw" /\ last.caller = Owner

\* ------------------------------------------------------------ C25

\* C25 (sweep): in the state an emergencyWithdraw of the staking token
\* leaves (last is that call, its flag says the token was the staking
\* token), the contract's balance of that token is at least the sum, over
\* all markets and all participants who have not yet claimed or refunded,
\* of what they can withdraw: the refund of a cancelled or expired market,
\* the payout of a resolved one.
C25_SweepLeavesOwed ==
  (last.op = "emergencyWithdraw" /\ last.flag) =>
    balance[Contract] >=
      EntitledIn(Key("")) + EntitledIn(Key("a")) + EntitledIn(Key("b"))

\* ------------------------------------------------------------ C26

\* The market of slug s has a deadline, is unresolved, the time is past
\* deadline + REFUND_GRACE_PERIOD, and u holds a stake in it that was
\* neither claimed nor refunded.
ExpiredWithStake(s, u) ==
  /\ markets[Key(s)].deadline > 0
  /\ ~markets[Key(s)].resolved
  /\ now - REFUND_GRACE_PERIOD > markets[Key(s)].deadline
  /\ ~stakes[Key(s)][u].claimed
  /\ stakes[Key(s)][u].amountYes + stakes[Key(s)][u].amountNo > 0

\* C26 (authority absent): whenever a market with a deadline is unresolved
\* and the time is past deadline + REFUND_GRACE_PERIOD, every participant
\* with a positive unclaimed stake can refund: their refund call is accepted
\* and pays amountYes + amountNo, whether or not another participant has
\* refunded (and so cancelled the market) before; and every refund taken in
\* such a state pays the caller exactly that amount.  No call of the owner
\* is needed.
C26_ExpiredRefundAvailable ==
  /\ [](\A s \in Slugs, u \in Users :
          ExpiredWithStake(s, u) =>
            /\ RefundNow(u, s).err = "ok"
            /\ RefundNow(u, s).total =
                 stakes[Key(s)][u].amountYes + stakes[Key(s)][u].amountNo
            /\ RefundNow(u, s).bal[u] = balance[u] + RefundNow(u, s).total)
  /\ [][\A s \in Slugs, u \in Users :
          (/\ ExpiredWithStake(s, u)
           /\ last'.op = "refund" /\ last'.caller = u /\ last'.slug = s) =>
            /\ balance'[u] = balance[u] + stakes[Key(s)][u].amountYes
                                        + stakes[Key(s)][u].amountNo
            /\ stakes'[Key(s)][u].claimed]_vars

\* The owner set a deadline and did nothing more; past the grace period
\* alice has taken her refund, which cancelled the market, and bob, who
\* staked on the other side, still holds his stake and can take his.
C26_Witness ==
  /\ ExpiredWithStake("a", "bob")
  /\ stakes[Key("a")]["bob"].amountNo > 0
  /\ stakes[Key("a")]["alice"].amountYes > 0
  /\ paid[Key("a")]["alice"].refunds = 1
  /\ voidedBy[Key("a")] = "refund"
  /\ last.op = "refund" /\ last.caller = "alice"

\* ------------------------------------------------------------ C27

\* getMarketByIndex(index): key = marketKeys[index]; slug = slugOf[key].
\* Solidity counts from 0 and reverts on an index past the end.
getMarketByIndex(index) ==
  IF index \in 0..(Len(marketKeys) - 1)
    THEN [err |-> "ok", key |-> marketKeys[index + 1],
          slug |-> slugOf[marketKeys[index + 1]]]
    ELSE Revert("Panic")

\* C27 (enumeration): marketKeys lists exactly the keys of the existing
\* markets, each once, and marketCount is their number; slugOf holds a slug
\* for exactly those keys, and it is the slug the key is the digest of, so
\* getMarketByIndex(i) returns, for i < marketCount, a key and the slug it
\* was created with, and reverts past the end.  In every step the old
\* enumeration is a prefix of the new one: an answer getMarketByIndex has
\* given never changes, and a new key is added at the end only, when its
\* market comes to exist.
C27_EnumerationAppendOnly ==
  /\ [](/\ marketCount = Cardinality({k \in Keys : markets[k].exists})
        /\ \A k \in Keys :
             /\ markets[k].exists <=>
                  (\E i \in 1..Len(marketKeys) : marketKeys[i] = k)
             /\ markets[k].exists <=> slugOf[k] # ""
        /\ \A i, j \in 1..Len(marketKeys) :
             marketKeys[i] = marketKeys[j] => i = j
        /\ \A i \in 0..(marketCount - 1) :
             /\ getMarketByIndex(i).err = "ok"
             /\ getMarketByIndex(i).key = Key(getMarketByIndex(i).slug)
        /\ getMarketByIndex(marketCount).err = "Panic")
  /\ [][/\ Len(marketKeys') >= Len(marketKeys)
        /\ \A i \in 0..(marketCount - 1) :
             getMarketByIndex(i)' = getMarketByIndex(i)
        /\ \A i \in (Len(marketKeys) + 1)..Len(marketKeys') :
             /\ ~markets[marketKeys'[i]].exists
             /\ markets'[marketKeys'[i]].exists]_vars

\* Market "b" was created first and market "a" second, by a stake just
\* made: the enumeration gives them in that order with their slugs.
C27_Witness ==
  /\ marketCount = 2
  /\ getMarketByIndex(0) = [err |-> "ok", key |-> Key("b"), slug |-> "b"]
  /\ getMarketByIndex(1) = [err |-> "ok", key |-> Key("a"), slug |-> "a"]
  /\ last.op = "stake" /\ last.slug = "a"

\* ------------------------------------------------------------ C28

\* C28 (one cancellation event): for every market the number of
\* MarketCancelled events emitted is 1 if the market is cancelled and 0 if
\* it is not, so never more than 1, whichever of cancelMarket, a resolve
\* with an empty winning side and the first refund of an expired market
\* cancelled it; a step emits the event exactly when it sets cancelled, and
\* a refund of a market that is already cancelled emits none.
C28_CancelledEventOnce ==
  /\ [](\A k \in Keys :
          events[k].MarketCancelled = IF markets[k].cancelled THEN 1 ELSE 0)
  /\ [][\A k \in Keys :
          /\ events'[k].MarketCancelled - events[k].MarketCancelled =
               IF ~markets[k].cancelled /\ markets'[k].cancelled THEN 1 ELSE 0
          /\ (last'.op = "refund" /\ markets[k].cancelled) =>
               events'[k].MarketCancelled = events[k].MarketCancelled]_vars

\* alice and then bob have refunded from the same expired market, which
\* was never cancelled by the owner: the first refund emitted the event,
\* the second did not.
C28_Witness ==
  /\ voidedBy[Key("a")] = "refund"
  /\ paid[Key("a")]["alice"].refunds = 1
  /\ paid[Key("a")]["bob"].refunds = 1
  /\ last.op = "refund" /\ last.caller = "bob" /\ ~last.flag
  /\ now - REFUND_GRACE_PERIOD > markets[Key("a")].deadline
  /\ events[Key("a")].MarketCancelled = 1

\* ------------------------------------------------------------ C29

\* C29 (setDeadline): the owner's setDeadline is rejected with
\* MarketDoesNotExist on a slug with no market, with MarketAlreadyResolved
\* on a resolved market and with MarketIsCancelled on a cancelled one, and
\* is accepted otherwise, for any deadline, 0 included; a rejected call
\* carries no write.  A setDeadline step is taken on an existing market
\* that is neither resolved nor cancelled and changes that market's
\* deadline to the value passed and nothing else; no step changes the
\* deadline of a market that is resolved or cancelled.
C29_SetDeadlineFrame ==
  /\ [](\A s \in Slugs, d \in Deadlines :
          LET m == markets[Key(s)]
              r == setDeadline(Storage, Owner, s, d)
          IN /\ r.err = IF ~m.exists THEN "MarketDoesNotExist"
                        ELSE IF m.resolved THEN "MarketAlreadyResolved"
                        ELSE IF m.cancelled THEN "MarketIsCancelled"
                        ELSE "ok"
             /\ r.err # "ok" => r = Revert(r.err)
             /\ r.err = "ok" =>
                  r.st = [Storage EXCEPT !.markets[Key(s)].deadline = d])
  /\ [][last'.op = "setDeadline" =>
          LET k == Key(last'.slug)
          IN /\ markets[k].exists
             /\ ~markets[k].resolved /\ ~markets[k].cancelled
             /\ markets' = [markets EXCEPT ![k].deadline = last'.amount]
             /\ UNCHANGED <<stakes, marketKeys, slugOf, events, balance,
                            paid, now>>]_vars
  /\ [][\A k \in Keys :
          (markets[k].resolved \/ markets[k].cancelled) =>
            markets'[k].deadline = markets[k].deadline]_vars

\* The owner set a deadline on market "a", in which alice holds a stake,
\* and then cancelled the market: the deadline stays, and the owner's
\* attempt to remove it is rejected.
C29_Witness ==
  /\ markets[Key("a")].deadline = Deadline1
  /\ markets[Key("a")].cancelled
  /\ voidedBy[Key("a")] = "cancelMarket"
  /\ stakes[Key("a")]["alice"].amountYes > 0
  /\ setDeadline(Storage, Owner, "a", 0).err = "MarketIsCancelled"

\* ------------------------------------------------------------ C30

\* C30 (cancelMarket): the owner's cancelMarket is accepted exactly when
\* the market exists and is neither resolved nor cancelled; it is rejected
\* with MarketDoesNotExist on a slug with no market, with
\* MarketAlreadyResolved on a resolved market and with MarketIsCancelled on
\* a cancelled unresolved one.  A cancelMarket step sets the market's
\* cancelled flag, emits its event and changes nothing else.  A market
\* resolved with a winning pool above zero is not cancelled and is never
\* cancelled later, nobody was ever refunded from it, and every refund call
\* on it is rejected.
C30_CancelMarketFrame ==
  /\ [](\A s \in Slugs :
          LET m == markets[Key(s)]
              r == cancelMarket(Storage, Owner, s)
          IN /\ r.err = "ok" <=> (m.exists /\ ~m.resolved /\ ~m.cancelled)
             /\ r.err = IF ~m.exists THEN "MarketDoesNotExist"
                        ELSE IF m.resolved THEN "MarketAlreadyResolved"
                        ELSE IF m.cancelled THEN "MarketIsCancelled"
                        ELSE "ok"
             /\ r.err # "ok" => r = Revert(r.err))
  /\ [][last'.op = "cancelMarket" =>
          LET k == Key(last'.slug)
          IN /\ markets[k].exists
             /\ ~markets[k].resolved /\ ~markets[k].cancelled
             /\ markets' = [markets EXCEPT ![k].cancelled = TRUE]
             /\ events' = [events EXCEPT ![k].MarketCancelled = @ + 1]
             /\ UNCHANGED <<stakes, marketKeys, slugOf, balance, paid,
                            now>>]_vars
  /\ [](\A s \in Slugs :
          LET m == markets[Key(s)]
          IN (m.resolved /\ WinningPool(m, m.outcomeYes) > 0) =>
               /\ ~m.cancelled
               /\ voidedBy[Key(s)] = "none"
               /\ \A u \in Users :
                    /\ RefundNow(u, s).err \notin {"ok", "TransferFailed"}
                    /\ paid[Key(s)][u].refunds = 0)
  /\ [][\A k \in Keys :
          (markets[k].resolved /\ ~markets[k].cancelled) =>
            (markets'[k].resolved /\ ~markets'[k].cancelled)]_vars

\* The owner has just cancelled market "a", in which alice and bob hold
\* stakes on opposite sides: a second cancelMarket is rejected with
\* MarketIsCancelled.
C30_Witness ==
  /\ last.op = "cancelMarket" /\ last.slug = "a"
  /\ markets[Key("a")].cancelled /\ ~markets[Key("a")].resolved
  /\ stakes[Key("a")]["alice"].amountYes > 0
  /\ stakes[Key("a")]["bob"].amountNo > 0
  /\ cancelMarket(Storage, Owner, "a").err = "MarketIsCancelled"

\* ------------------------------------------------------------ C31

\* C31 (refund of a cancelled market): in every reachable state, on every
\* cancelled market, the refund call of every participant who holds a
\* positive stake and has neither claimed nor refunded is accepted and pays
\* amountYes + amountNo, whatever deadline the market stores.
C31_CancelledRefundAnyDeadline ==
  \A s \in Slugs, u \in Users :
    (/\ markets[Key(s)].cancelled
     /\ ~stakes[Key(s)][u].claimed
     /\ stakes[Key(s)][u].amountYes + stakes[Key(s)][u].amountNo > 0) =>
      /\ RefundNow(u, s).err = "ok"
      /\ RefundNow(u, s).total =
           stakes[Key(s)][u].amountYes + stakes[Key(s)][u].amountNo

\* ------------------------------------------------------------ C32

\* The market of slug s has a deadline, the time is past
\* deadline + REFUND_GRACE_PERIOD, the market is neither resolved nor
\* cancelled, and u holds no stake in it.
ExpiredOpenNoStake(s, u) ==
  /\ markets[Key(s)].exists
  /\ markets[Key(s)].deadline > 0
  /\ now - REFUND_GRACE_PERIOD > markets[Key(s)].deadline
  /\ ~markets[Key(s)].resolved /\ ~markets[Key(s)].cancelled
  /\ stakes[Key(s)][u].amountYes + stakes[Key(s)][u].amountNo = 0

\* C32 (refund with nothing to refund): on an expired, unresolved,
\* uncancelled market the refund call of an account with no stake is
\* rejected with NothingToRefund.  The call had set cancelled when it was
\* rejected; the revert undoes that, so the storage after the call is the
\* storage before it, cancelled is false, and the owner's resolve is
\* accepted for either outcome.  A market becomes voided by refund only in
\* a refund step that pays a positive amount.
C32_EmptyRefundDoesNotVoid ==
  /\ [](\A s \in Slugs, u \in Users :
          ExpiredOpenNoStake(s, u) =>
            LET reached == refundAtStakeTest(Storage, now, s)
                after == RolledBack(Storage, reached)
            IN /\ RefundNow(u, s) = Revert("NothingToRefund")
               /\ reached.markets[Key(s)].cancelled
               /\ after = Storage
               /\ ~after.markets[Key(s)].cancelled
               /\ \A o \in BOOLEAN : resolve(after, Owner, s, o).err = "ok")
  /\ [][\A k \in Keys :
          (voidedBy'[k] = "refund" /\ voidedBy[k] # "refund") =>
            /\ last'.op = "refund" /\ Key(last'.slug) = k
            /\ last'.amount > 0
            /\ balance'[last'.caller] = balance[last'.caller] + last'.amount
            /\ ~markets[k].cancelled /\ markets'[k].cancelled]_vars

\* alice holds a stake in market "a", whose deadline and grace period have
\* passed with no resolve and no refund; bob, who holds none, is rejected
\* with NothingToRefund, and the owner can still resolve.
C32_Witness ==
  /\ ExpiredOpenNoStake("a", "bob")
  /\ stakes[Key("a")]["alice"].amountYes > 0
  /\ RefundNow("bob", "a").err = "NothingToRefund"
  /\ RefundNow("alice", "a").err = "ok"
  /\ ResolveNow(Owner, "a", TRUE).err = "ok"

\* ------------------------------------------------------------ C33

\* C33 (late resolve): on every existing market that is neither resolved
\* nor cancelled the owner's resolve is accepted for either outcome,
\* whatever the time and the deadline, past deadline + REFUND_GRACE_PERIOD
\* included; every resolve step was taken on such a market.  Once a market
\* past deadline + grace is resolved with a winning pool above zero, every
\* refund call on it is rejected with RefundNotAvailable, and it stays so.
C33_ResolveIgnoresTime ==
  /\ [](\A s \in Slugs, o \in BOOLEAN :
          LET m == markets[Key(s)]
          IN (m.exists /\ ~m.resolved /\ ~m.cancelled) =>
               /\ ResolveNow(Owner, s, o).err = "ok"
               /\ ResolveNow(Owner, s, o).st.markets[Key(s)].resolved)
  /\ [][last'.op = "resolve" =>
          LET k == Key(last'.slug)
          IN /\ markets[k].exists
             /\ ~markets[k].resolved /\ ~markets[k].cancelled
             /\ markets'[k].resolved
             /\ markets'[k].outcomeYes = last'.flag
             /\ markets'[k].deadline = markets[k].deadline]_vars
  /\ [](\A s \in Slugs :
          LET m == markets[Key(s)]
          IN (/\ m.resolved /\ WinningPool(m, m.outcomeYes) > 0
              /\ m.deadline > 0
              /\ now - REFUND_GRACE_PERIOD > m.deadline) =>
               \A u \in Users :
                 RefundNow(u, s) = Revert("RefundNotAvailable"))

\* The owner has just resolved market "a" past its deadline and grace
\* period for alice's side; alice and bob, who staked on the other side,
\* can no longer refund.
C33_Witness ==
  /\ last.op = "resolve" /\ last.slug = "a" /\ last.flag
  /\ markets[Key("a")].deadline > 0
  /\ now - REFUND_GRACE_PERIOD > markets[Key("a")].deadline
  /\ markets[Key("a")].resolved /\ ~markets[Key("a")].cancelled
  /\ stakes[Key("a")]["alice"].amountYes > 0
  /\ stakes[Key("a")]["bob"].amountNo > 0
  /\ RefundNow("alice", "a").err = "RefundNotAvailable"
  /\ RefundNow("bob", "a").err = "RefundNotAvailable"

\* ------------------------------------------------------------ C34

\* The market exists, has no deadline, and is neither resolved nor
\* cancelled.
OpenNoDeadline(m) ==
  m.exists /\ m.deadline = 0 /\ ~m.resolved /\ ~m.cancelled

\* C34 (no deadline, no exit): while a market has no deadline and is
\* neither resolved nor cancelled, at every time every claim on it is
\* rejected with MarketNotResolved and every refund with RefundNotAvailable,
\* and nothing was ever paid out of it.  Every claim and refund step is
\* taken on a market that is resolved, cancelled or has a deadline, and a
\* market leaves the state above only in the owner's resolve, cancelMarket
\* or setDeadline.
C34_NoDeadlineNoExit ==
  /\ [](\A s \in Slugs :
          OpenNoDeadline(markets[Key(s)]) =>
            /\ \A u \in Users :
                 /\ ClaimNow(u, s) = Revert("MarketNotResolved")
                 /\ RefundNow(u, s) = Revert("RefundNotAvailable")
            /\ PaidOut(Key(s)) = 0)
  /\ [][/\ last'.op \in {"claim", "refund"} =>
             ~OpenNoDeadline(markets[Key(last'.slug)])
        /\ \A k \in Keys :
             (OpenNoDeadline(markets[k]) /\ ~OpenNoDeadline(markets'[k])) =>
               /\ last'.op \in {"resolve", "cancelMarket", "setDeadline"}
               /\ last'.caller = Owner
               /\ Key(last'.slug) = k]_vars

\* alice and bob hold stakes in market "a", which has no deadline; far
\* past the first block neither can claim or refund.
C34_Witness ==
  /\ OpenNoDeadline(markets[Key("a")])
  /\ now = Deadline1 + REFUND_GRACE_PERIOD + 1
  /\ stakes[Key("a")]["alice"].amountYes > 0
  /\ stakes[Key("a")]["bob"].amountNo > 0
  /\ RefundNow("alice", "a").err = "RefundNotAvailable"
  /\ ClaimNow("bob", "a").err = "MarketNotResolved"

\* ------------------------------------------------------------ C35

\* C35 (no division by zero): in every reachable state a market that is
\* resolved and not cancelled has a winning pool above zero; so every claim
\* that gets as far as the division divides by a positive number, and each
\* of its winners' stakes is at most the winning pool.
C35_WinningPoolPositive ==
  \A s \in Slugs :
    LET m == markets[Key(s)]
    IN (m.resolved /\ ~m.cancelled) =>
         /\ WinningPool(m, m.outcomeYes) > 0
         /\ \A u \in Users :
              /\ WinningStake(m, stakes[Key(s)][u]) <= WinningPool(m, m.outcomeYes)
              /\ ClaimNow(u, s).err \in
                   {"ok", "AlreadyClaimed", "NothingToClaim",
                    "TransferFailed"}

\* Market "a" was resolved for NO with stakes on both sides: bob's claim
\* divides by the NO pool, which holds his stake.
C35_Witness ==
  /\ markets[Key("a")].resolved /\ ~markets[Key("a")].cancelled
  /\ ~markets[Key("a")].outcomeYes
  /\ markets[Key("a")].totalYes > 0
  /\ markets[Key("a")].totalNo = stakes[Key("a")]["bob"].amountNo
  /\ ClaimNow("bob", "a").err = "ok"
  /\ ClaimNow("bob", "a").payout = TotalPool(Key("a"))

\* ------------------------------------------------------------ C36

\* C36 (resolved and cancelled): in every reachable state a market that is
\* both resolved and cancelled has a winning pool of zero for its recorded
\* outcome.
C36_ResolvedCancelledHasNoWinners ==
  \A k \in Keys :
    (markets[k].resolved /\ markets[k].cancelled) =>
      WinningPool(markets[k], markets[k].outcomeYes) = 0

\* ------------------------------------------------------------ C37

\* Successful claims and successful refunds taken from market k so far, by
\* anyone.
ClaimsOf(k) ==
  paid[k]["owner"].claims + paid[k]["alice"].claims + paid[k]["bob"].claims

RefundsOf(k) ==
  paid[k]["owner"].refunds + paid[k]["alice"].refunds + paid[k]["bob"].refunds

\* C37 (claim and refund exclude each other per market): in every
\* reachable state no market has both a successful claim and a successful
\* refund in its history, whoever made them.  A market that has paid a
\* claim is resolved and not cancelled, and every refund call on it is
\* rejected; a market that has paid a refund is cancelled, and every claim
\* call on it is rejected.
C37_ClaimXorRefundPerMarket ==
  \A s \in Slugs :
    LET k == Key(s) IN
    /\ ClaimsOf(k) = 0 \/ RefundsOf(k) = 0
    /\ ClaimsOf(k) > 0 =>
         /\ markets[k].resolved /\ ~markets[k].cancelled
         /\ \A u \in Users : RefundNow(u, s).err # "ok"
    /\ RefundsOf(k) > 0 =>
         /\ markets[k].cancelled
         /\ \A u \in Users : ClaimNow(u, s).err # "ok"

\* alice has claimed her winnings from market "a", past its deadline and
\* grace period; bob, who lost, holds an unclaimed stake and cannot take it
\* back by refund.
C37_Witness ==
  /\ paid[Key("a")]["alice"].claims = 1
  /\ stakes[Key("a")]["bob"].amountNo > 0
  /\ ~stakes[Key("a")]["bob"].claimed
  /\ markets[Key("a")].deadline > 0
  /\ now - REFUND_GRACE_PERIOD > markets[Key("a")].deadline
  /\ RefundNow("bob", "a").err = "RefundNotAvailable"
  /\ RefundsOf(Key("a")) = 0

\* ------------------------------------------------------------ C38

\* The calls stake(slugs[i], sides[i], amounts[i]), stake(slugs[i+1], ...),
\* ... made one after the other by caller at time t, each on the storage
\* and the ledger the one before left; the first revert ends the sequence.
RECURSIVE StakeEach(_, _, _, _, _, _, _, _)
StakeEach(st, bal, t, caller, slugs, sides, amounts, i) ==
  IF i > Len(slugs) THEN [err |-> "ok", st |-> st, bal |-> bal]
  ELSE LET r == stake(st, bal, t, caller, slugs[i], sides[i], amounts[i])
       IN IF r.err # "ok" THEN r
          ELSE StakeEach(r.st, r.bal, t, caller, slugs, sides, amounts, i + 1)

\* C38 (batch against single stakes): in every reachable state, for every
\* caller and every batch over two slugs of up to MaxBatch entries, repeated
\* slugs included: if batchStake is accepted, then the individual stake
\* calls of its entries, made in order by the same caller at the same time,
\* are all accepted and leave the same markets, stake records, marketKeys,
\* slugOf, creation events and token balances as the batch.
C38_BatchEqualsStakes ==
  \A u \in Users, args \in Batches(TwoMarkets) :
    LET r == BatchStakeNow(u, args)
        q == StakeEach(Storage, balance, now, u, args[1], args[2], args[3], 1)
    IN r.err = "ok" =>
         /\ q.err = "ok"
         /\ q.st = r.st
         /\ q.bal = r.bal

\* alice has just staked on both sides of the new market "a" in one batch:
\* one market, one creation event, both amounts recorded, as two stake
\* calls would have left it.
C38_Witness ==
  /\ last.op = "batchStake" /\ last.caller = "alice"
  /\ marketKeys = <<Key("a")>>
  /\ events[Key("a")].MarketCreated = 1
  /\ stakes[Key("a")]["alice"].amountYes >= MIN_STAKE
  /\ stakes[Key("a")]["alice"].amountNo >= MIN_STAKE
  /\ TotalPool(Key("a")) = last.amount
  /\ balance[Contract] = StrayFunds + last.amount

\* ------------------------------------------------------------ C39

\* Two markets, the six functions that take one slug, the clock.
NextIsolated ==
  \/ Stake(TwoMarkets)
  \/ Resolve(TwoMarkets)
  \/ Claim(TwoMarkets)
  \/ Refund(TwoMarkets)
  \/ SetDeadline(TwoMarkets)
  \/ CancelMarket(TwoMarkets)
  \/ AdvanceTime

SpecIsolated == InitMulti /\ [][NextIsolated]_vars

\* The storage with the records of every market but k blank.
OnlyMarket(st, k) ==
  [st EXCEPT !.markets = [j \in Keys |-> IF j = k THEN st.markets[j]
                                                  ELSE ZeroMarket],
             !.stakes = [j \in Keys |-> IF j = k THEN st.stakes[j]
                                                 ELSE [u \in Users |-> ZeroStake]]]

\* What the contract pays u for slug s when called now: the payout of an
\* accepted claim, the total of an accepted refund, 0 when both are
\* rejected.
Withdrawable(u, s) ==
  IF ClaimNow(u, s).err = "ok" THEN ClaimNow(u, s).payout
  ELSE IF RefundNow(u, s).err = "ok" THEN RefundNow(u, s).total
  ELSE 0

\* What the contract pays for slug s when every account calls now.
WithdrawableIn(s) ==
  Withdrawable("owner", s) + Withdrawable("alice", s) + Withdrawable("bob", s)

\* C39 (isolation): a stake, resolve, claim, refund, setDeadline or
\* cancelMarket step on one slug leaves the Market record and every Stake
\* record of every other slug as they were.  In every state the result of
\* claim and of refund on a slug is the one computed from that market's
\* records alone, the other markets' records blank, and the contract's
\* token balance covers what all accounts of all markets together are paid
\* when they call now: a payment out of one market never leaves another
\* market's participants short.
C39_MarketsIsolated ==
  /\ [][last'.op \in {"stake", "resolve", "claim", "refund", "setDeadline",
                      "cancelMarket"} =>
          \A s \in Slugs \ {last'.slug} :
            /\ markets'[Key(s)] = markets[Key(s)]
            /\ stakes'[Key(s)] = stakes[Key(s)]]_vars
  /\ [](\A s \in Slugs, u \in Users :
          LET k == Key(s)
              c == claim(OnlyMarket(Storage, k), balance, u, s)
              r == refund(OnlyMarket(Storage, k), balance, now, u, s)
          IN /\ c.err = ClaimNow(u, s).err
             /\ c.err = "ok" => c.payout = ClaimNow(u, s).payout
             /\ r.err = RefundNow(u, s).err
             /\ r.err = "ok" => r.total = RefundNow(u, s).total)
  /\ [](balance[Contract] >=
          WithdrawableIn("") + WithdrawableIn("a") + WithdrawableIn("b"))

\* alice has just been paid her winnings from market "a" while she holds
\* an unclaimed stake in the cancelled market "b", whose refund is still
\* hers to take in full.
C39_Witness ==
  /\ last.op = "claim" /\ last.slug = "a" /\ last.caller = "alice"
  /\ last.amount > 0
  /\ markets[Key("b")].cancelled
  /\ stakes[Key("b")]["alice"].amountYes > 0
  /\ ~stakes[Key("b")]["alice"].claimed
  /\ Withdrawable("alice", "b") = stakes[Key("b")]["alice"].amountYes
                                   + stakes[Key("b")]["alice"].amountNo

\* ------------------------------------------------------------ C40

\* C40 (creation): on a slug whose market does not exist the owner's
\* resolve, setDeadline and cancelMarket and everybody's claim and refund
\* are rejected with MarketDoesNotExist, and the records the queries read
\* for it are blank: no market, no stake, no key, no slug.  A market comes
\* to exist only in a stake or batchStake step.  Every existing market
\* holds totalYes + totalNo >= MIN_STAKE.  A stake with an empty slug is
\* rejected with EmptySlug, and one with a slug and an amount below
\* MIN_STAKE with StakeTooSmall.
C40_OnlyStakeCreates ==
  /\ [](\A s \in Slugs :
          ~markets[Key(s)].exists =>
            /\ \A o \in BOOLEAN :
                 ResolveNow(Owner, s, o) = Revert("MarketDoesNotExist")
            /\ \A d \in Deadlines :
                 setDeadline(Storage, Owner, s, d)
                   = Revert("MarketDoesNotExist")
            /\ cancelMarket(Storage, Owner, s) = Revert("MarketDoesNotExist")
            /\ \A u \in Users :
                 /\ ClaimNow(u, s) = Revert("MarketDoesNotExist")
                 /\ RefundNow(u, s) = Revert("MarketDoesNotExist")
                 /\ stakes[Key(s)][u] = ZeroStake
            /\ markets[Key(s)] = ZeroMarket
            /\ slugOf[Key(s)] = ""
            /\ \A i \in 0..(marketCount - 1) :
                 getMarketByIndex(i).key # Key(s))
  /\ [][\A k \in Keys :
          (~markets[k].exists /\ markets'[k].exists) =>
            last'.op \in {"stake", "batchStake"}]_vars
  /\ [](\A k \in Keys : markets[k].exists => TotalPool(k) >= MIN_STAKE)
  /\ [](\A u \in Users, s \in Slugs, y \in BOOLEAN, a \in Amounts :
          /\ s = "" => StakeNow(u, s, y, a) = Revert("EmptySlug")
          /\ (s # "" /\ a < MIN_STAKE) =>
               StakeNow(u, s, y, a) = Revert("StakeTooSmall"))

\* Market "a" was created by a stake of exactly MIN_STAKE; the owner has
\* just resolved it, and "b", never staked on, is unknown to every function.
C40_Witness ==
  /\ markets[Key("a")].exists
  /\ TotalPool(Key("a")) = MIN_STAKE
  /\ last.op = "resolve" /\ last.slug = "a"
  /\ ~markets[Key("b")].exists
  /\ ResolveNow(Owner, "b", TRUE).err = "MarketDoesNotExist"
  /\ RefundNow("alice", "b").err = "MarketDoesNotExist"
  /\ marketCount = 1

====
